---- MODULE Spec2Model ----
(***************************************************************************)
(* Puzzle trainer of chess-analyzer (crates/web/static/js/puzzles.js).     *)
(* Strings are sequences of one-character strings, so that concatenation,  *)
(* startsWith, includes, replace and split are computed as the code does.  *)
(* A square is the two-character string file+rank, a move code is four or  *)
(* five characters.                                                        *)
(***************************************************************************)
EXTENDS Integers, Sequences, FiniteSets, TLC

\* ------------------------------------------------------------------ bounds
MaxAttempts == 2
MaxLoads == 2
MaxInputSquares == 5
MaxDelta == 3

\* --------------------------------------------------------------- constants
FILES == <<"a", "b", "c", "d", "e", "f", "g", "h">>
RANKS == <<"1", "2", "3", "4", "5", "6", "7", "8">>
DRAG_THRESHOLD == 3

AllSquares == {<<FILES[f], RANKS[r]>> : f \in 1..8, r \in 1..8}

\* the value of a missing key of state.pieces, and of null fields
Undefined == "undefined"
Null == <<>>

\* ------------------------------------------------------- string primitives
LowerAlpha == <<"a", "b", "c", "d", "e", "f", "g", "h", "k", "n", "p", "q", "r">>
UpperAlpha == <<"A", "B", "C", "D", "E", "F", "G", "H", "K", "N", "P", "Q", "R">>

\* Array.prototype.indexOf: zero-based index of the first match, or -1
indexOf(arr, c) ==
    IF \E i \in 1..Len(arr) : arr[i] = c
    THEN (CHOOSE i \in 1..Len(arr) : arr[i] = c /\ \A j \in 1..(i-1) : arr[j] # c) - 1
    ELSE -1

toUpperCase(c) ==
    IF indexOf(LowerAlpha, c) >= 0 THEN UpperAlpha[indexOf(LowerAlpha, c) + 1] ELSE c

toLowerCase(c) ==
    IF indexOf(UpperAlpha, c) >= 0 THEN LowerAlpha[indexOf(UpperAlpha, c) + 1] ELSE c

strToLowerCase(s) == [i \in 1..Len(s) |-> toLowerCase(s[i])]

\* String.prototype.startsWith
startsWith(s, prefix) ==
    /\ Len(prefix) <= Len(s)
    /\ \A i \in 1..Len(prefix) : s[i] = prefix[i]

\* String.prototype.includes for a one-character needle
includes(s, c) == \E i \in 1..Len(s) : s[i] = c

\* String.prototype.replace(c, ''): removes the first occurrence only
replace(s, c) ==
    IF includes(s, c)
    THEN LET k == indexOf(s, c) + 1
         IN  SubSeq(s, 1, k - 1) \o SubSeq(s, k + 1, Len(s))
    ELSE s

RECURSIVE splitFrom(_, _, _, _)
splitFrom(s, sep, i, cur) ==
    IF i > Len(s) THEN <<cur>>
    ELSE IF s[i] = sep THEN <<cur>> \o splitFrom(s, sep, i + 1, <<>>)
    ELSE splitFrom(s, sep, i + 1, Append(cur, s[i]))

\* String.prototype.split for a one-character separator
split(s, sep) == splitFrom(s, sep, 1, <<>>)

\* ------------------------------------------------------------- FEN parsing
EmptyBoard == [sq \in AllSquares |-> Undefined]

\* the inner loop of parseFen over the characters of one row; a key built
\* from FILES[fileIdx] with fileIdx > 7 names no board square
RECURSIVE parseRow(_, _, _, _, _)
parseRow(row, i, fileIdx, rank, ps) ==
    IF i > Len(row) THEN ps
    ELSE IF indexOf(RANKS, row[i]) >= 0
         THEN parseRow(row, i + 1, fileIdx + indexOf(RANKS, row[i]) + 1, rank, ps)
         ELSE parseRow(row, i + 1, fileIdx + 1, rank,
                       IF fileIdx < 8
                       THEN [ps EXCEPT ![<<FILES[fileIdx + 1], rank>>] = row[i]]
                       ELSE ps)

\* a parser that takes the first row for rank 1
RECURSIVE parseRows_fromRank1(_, _, _)
parseRows_fromRank1(rows, rankIdx, ps) ==
    IF rankIdx > 7 THEN ps
    ELSE parseRows_fromRank1(rows, rankIdx + 1,
                             parseRow(rows[rankIdx + 1], 1, 0, RANKS[rankIdx + 1], ps))

RECURSIVE parseRows(_, _, _)
parseRows(rows, rankIdx, ps) ==
    IF rankIdx > 7 THEN ps
    ELSE parseRows(rows, rankIdx + 1,
                   parseRow(rows[rankIdx + 1], 1, 0, RANKS[8 - rankIdx], ps))

\* a parser that rejects a castling token with a character outside KQkq
parseFen_strictCastling(fen) ==
    LET parts == split(fen, " ")
        position == parts[1]
        turnTok == IF Len(parts) >= 2 /\ parts[2] # <<>> THEN parts[2] ELSE <<"w">>
        castTok == IF Len(parts) >= 3 /\ parts[3] # <<>> THEN parts[3] ELSE <<"-">>
        rows == split(position, "/")
    IN  IF Len(rows) < 8 \/ \E k \in DOMAIN castTok : castTok[k] \notin {"K", "Q", "k", "q", "-"}
        THEN [threw |-> TRUE, pieces |-> EmptyBoard, turn |-> "white", castling |-> <<>>]
        ELSE [threw |-> FALSE,
              pieces |-> parseRows(rows, 0, EmptyBoard),
              turn |-> IF turnTok = <<"w">> THEN "white" ELSE "black",
              castling |-> IF castTok = <<"-">> THEN <<>> ELSE castTok]

\* parseFen: threw is TRUE when rows[rankIdx] is undefined for some
\* rankIdx < 8 (iterating undefined raises a TypeError)
parseFen(fen) ==
    LET parts == split(fen, " ")
        position == parts[1]
        turnTok == IF Len(parts) >= 2 /\ parts[2] # <<>> THEN parts[2] ELSE <<"w">>
        castTok == IF Len(parts) >= 3 /\ parts[3] # <<>> THEN parts[3] ELSE <<"-">>
        rows == split(position, "/")
    IN  IF Len(rows) < 8
        THEN [threw |-> TRUE, pieces |-> EmptyBoard, turn |-> "white", castling |-> <<>>]
        ELSE [threw |-> FALSE,
              pieces |-> parseRows(rows, 0, EmptyBoard),
              turn |-> IF turnTok = <<"w">> THEN "white" ELSE "black",
              castling |-> IF castTok = <<"-">> THEN <<>> ELSE castTok]

\* ------------------------------------------------ puzzles and continuations
\* What GET /api/puzzles/next can answer: id, fen and best_move of a puzzle.
Puzzles ==
    { [id |-> 1,
       fen |-> <<"r","3","k","2","r","/","8","/","8","/","8","/","8","/","8","/","8","/","R","3","K","2","R"," ","w"," ","K","Q","k","q"," ","-"," ","0"," ","1">>,
       best_move |-> <<"e","1","g","1">>],
      [id |-> 2,
       fen |-> <<"3","r","3","k","/","4","P","3","/","8","/","8","/","8","/","8","/","8","/","4","K","3"," ","w"," ","-"," ","-"," ","0"," ","1">>,
       best_move |-> <<"e","7","e","8","q">>],
      [id |-> 3,
       fen |-> <<"r","3","k","2","r","/","8","/","8","/","8","/","8","/","8","/","8","/","R","3","K","2","R"," ","b"," ","K","Q","k","q"," ","-"," ","0"," ","1">>,
       best_move |-> <<"e","8","e","7">>],
      [id |-> 4,
       fen |-> <<"8","/","8","/","8","/","8","/","8","/","8","/","4","K","3"," ","w"," ","-"," ","-"," ","0"," ","1">>,
       best_move |-> <<"e","8","d","8">>],
      [id |-> 5,
       fen |-> <<"4","k","3","/","P","7","/","8","/","8","/","8","/","8","/","8","/","4","K","3"," ","b"," ","-"," ","-"," ","0"," ","1">>,
       best_move |-> <<"e","8","e","7">>] }

\* What GET /api/puzzles/<id>/continuation answers with for each puzzle.
Continuation(id) ==
    CASE id = 1 -> << <<"e","8","c","8">> >>
      [] id = 2 -> << <<"d","8","e","8">>, <<"e","1","e","2">> >>
      [] id = 3 -> << <<"h","1","h","8">> >>
      [] id = 4 -> << <<"h","1","h","8">> >>
      [] id = 5 -> << <<"a","7","a","8","q">> >>

NoPuzzle == [id |-> 0, fen |-> <<>>, best_move |-> <<>>]

\* the squares pointer events are delivered on
InputSquareList ==
    << <<"e","7">>, <<"e","8">>, <<"d","8">>, <<"e","1">>, <<"g","1">>,
       <<"h","1">>, <<"h","8">>, <<"c","8">> >>

InputSquares ==
    {InputSquareList[i] : i \in 1..(IF MaxInputSquares < Len(InputSquareList)
                                    THEN MaxInputSquares ELSE Len(InputSquareList))}

\* pointer offsets from the press point, per axis
Deltas == 0..MaxDelta

\* ------------------------------------------------------------------- state
VARIABLES
    puzzle,          \* state.puzzle (NoPuzzle for null)
    selectedSquare,  \* state.selectedSquare
    solved,          \* state.solved
    pieces,          \* state.pieces
    turn,            \* state.turn
    lastMove,        \* state.lastMove: Null or <<from, to>>
    castling,        \* state.castling
    dragging,        \* state.dragging
    hasDragged,      \* state.hasDragged
    totalSolved,     \* state.totalSolved
    totalAttempts,   \* state.totalAttempts
    animating,       \* state.animating
    btnNextShown,    \* display of the btn-next element
    tasks,           \* pending timers and fetches with their closures
    loads,           \* number of loadPuzzle calls made so far
    hist,            \* history: verified attempts, applied moves, dropped input
    probe,           \* a call of parseFen / getPseudoLegalMoves / executeMove made
                     \* on its own: its arguments and what it returned
    coord            \* the coordinate trainer: its state object, its interval
                     \* timer and its pending next-question timeouts

sessionVars == <<selectedSquare, dragging, hasDragged>>
boardVars == <<pieces, turn, castling, lastMove>>
vars == <<puzzle, selectedSquare, solved, pieces, turn, lastMove, castling,
          dragging, hasDragged, totalSolved, totalAttempts, animating,
          btnNextShown, tasks, loads, hist, probe, coord>>

\* the coordinate trainer before its init() has run
NoCoord == [mode |-> "find", timer |-> 0, currentSquare |-> Null, attempts |-> 0,
            correct |-> 0, waiting |-> FALSE, timerInterval |-> FALSE,
            question |-> 0, pending |-> <<>>]

\* no call made on its own
NoProbe == [fn |-> "none", fen |-> <<>>, threw |-> FALSE, square |-> Null,
            moves |-> <<>>, from |-> Null, to |-> Null, white |-> FALSE, ply |-> 0]

\* A pending callback with what its closure captured. epoch and done are
\* history: the number of the puzzle load the callback descends from, and how
\* many moves its playback has applied so far.
Task(kind, from, to, bestMove, moves, pid) ==
    [kind |-> kind, from |-> from, to |-> to, bestMove |-> bestMove,
     moves |-> moves, pid |-> pid, epoch |-> hist.epoch, done |-> 0]

\* a callback scheduled by the callback parent descends from the same load
Inherit(t, parent) == [t EXCEPT !.epoch = parent.epoch]

\* a callback of a playback that has applied n moves
Played(t, n) == [t EXCEPT !.done = n]

RemoveAt(seq, i) == SubSeq(seq, 1, i - 1) \o SubSeq(seq, i + 1, Len(seq))

\* The pending callbacks form a pool: any of them may fire next. The pool is
\* kept ordered by kind so that one pool has one representation.
KindOrder == <<"loadFetch", "attemptAnim", "attemptCastle", "wrong1", "wrong2",
               "solved", "contFetch", "contSleep", "contAnim", "contCastle">>

kindRank(t) == indexOf(KindOrder, t.kind)

AddTask(pool, t) ==
    LET k == Cardinality({j \in DOMAIN pool : kindRank(pool[j]) <= kindRank(t)})
    IN  SubSeq(pool, 1, k) \o <<t>> \o SubSeq(pool, k + 1, Len(pool))

NoApplied == [n |-> 0, src |-> "none", from |-> Null, to |-> Null, castle |-> FALSE]

NoHist == [n |-> 0, from |-> Null, to |-> Null, best |-> <<>>, correct |-> FALSE,
           nCorrect |-> 0, nSolved |-> 0, stale |-> FALSE, applied |-> NoApplied,
           epoch |-> 0]

\* history record of one applied move
Applied(h, src, from, to, castle) ==
    [h EXCEPT !.applied = [n |-> h.applied.n + 1, src |-> src, from |-> from,
                           to |-> to, castle |-> castle]]

\* ----------------------------------------------------------- board queries
isWhitePiece(piece) == piece = toUpperCase(piece)

\* ownership decided by occupancy alone
isOwnPiece_anyPiece(ps, t, square) == ps[square] # Undefined

isOwnPiece(ps, t, square) ==
    IF ps[square] = Undefined THEN FALSE
    ELSE (t = "white") = isWhitePiece(ps[square])

Abs(x) == IF x < 0 THEN -x ELSE x

isCastlingMove(ps, from, to) ==
    IF ps[from] = Undefined \/ toUpperCase(ps[from]) # "K" THEN FALSE
    ELSE Abs(indexOf(FILES, to[1]) - indexOf(FILES, from[1])) = 2

\* the rook square animateCastling looks up
castlingRookFrom(kingFrom, kingTo) ==
    IF kingTo[1] = "g" THEN <<"h", kingFrom[2]>> ELSE <<"a", kingFrom[2]>>

\* whether animateMove / animateWrongMove find the piece element to animate;
\* the board is re-rendered at the end of every handler that changes pieces
hasPieceElement(ps, square) == ps[square] # Undefined

hasCastlingElements(ps, kingFrom, kingTo) ==
    /\ ps[kingFrom] # Undefined
    /\ ps[castlingRookFrom(kingFrom, kingTo)] # Undefined

\* ---------------------------------------------------------- move generation
onBoard(f, r) == f >= 0 /\ f < 8 /\ r >= 0 /\ r < 8

\* FILES[f] + RANKS[r] for 0-based indices
squareAt(f, r) == <<FILES[f + 1], RANKS[r + 1]>>

isEmpty(ps, sq) == ps[sq] = Undefined

\* an addMove without the test of the target's colour
addMove_ontoOwn(ps, isWhite, f, r) ==
    IF onBoard(f, r) THEN <<squareAt(f, r)>> ELSE <<>>

\* addMove: the result is what it pushes to moves
addMove(ps, isWhite, f, r) ==
    IF onBoard(f, r)
    THEN LET target == squareAt(f, r)
             targetPiece == ps[target]
         IN  IF targetPiece = Undefined \/ isWhite # isWhitePiece(targetPiece)
             THEN <<target>>
             ELSE <<>>
    ELSE <<>>

\* the loops calling addMove over a list of offsets
RECURSIVE addMoves(_, _, _, _, _)
addMoves(ps, isWhite, fileIdx, rankIdx, offsets) ==
    IF offsets = <<>> THEN <<>>
    ELSE addMove(ps, isWhite, fileIdx + Head(offsets)[1], rankIdx + Head(offsets)[2])
         \o addMoves(ps, isWhite, fileIdx, rankIdx, Tail(offsets))

\* the while loop of addSlide, from the square (f, r) on
RECURSIVE slideFrom(_, _, _, _, _, _)
slideFrom(ps, isWhite, f, r, df, dr) ==
    IF ~onBoard(f, r) THEN <<>>
    ELSE LET target == squareAt(f, r)
             targetPiece == ps[target]
         IN  IF targetPiece = Undefined
             THEN <<target>> \o slideFrom(ps, isWhite, f + df, r + dr, df, dr)
             ELSE IF isWhite # isWhitePiece(targetPiece) THEN <<target>> ELSE <<>>

\* a slider that stops after one step
addSlide_oneStep(ps, isWhite, fileIdx, rankIdx, df, dr) ==
    addMove(ps, isWhite, fileIdx + df, rankIdx + dr)

addSlide(ps, isWhite, fileIdx, rankIdx, df, dr) ==
    slideFrom(ps, isWhite, fileIdx + df, rankIdx + dr, df, dr)

\* the loops calling addSlide over a list of directions
RECURSIVE addSlides(_, _, _, _, _)
addSlides(ps, isWhite, fileIdx, rankIdx, dirs) ==
    IF dirs = <<>> THEN <<>>
    ELSE addSlide(ps, isWhite, fileIdx, rankIdx, Head(dirs)[1], Head(dirs)[2])
         \o addSlides(ps, isWhite, fileIdx, rankIdx, Tail(dirs))

KnightOffsets == << <<-2,-1>>, <<-2,1>>, <<-1,-2>>, <<-1,2>>, <<1,-2>>, <<1,2>>, <<2,-1>>, <<2,1>> >>
BishopDirs == << <<-1,-1>>, <<-1,1>>, <<1,-1>>, <<1,1>> >>
RookDirs == << <<-1,0>>, <<1,0>>, <<0,-1>>, <<0,1>> >>
QueenDirs == BishopDirs \o RookDirs
KingOffsets == << <<-1,-1>>, <<-1,0>>, <<-1,1>>, <<0,-1>>, <<0,1>>, <<1,-1>>, <<1,0>>, <<1,1>> >>

\* a pawn that also steps onto empty diagonal squares
pawnMoves_capturesEmpty(ps, isWhite, fileIdx, rankIdx) ==
    LET dir == IF isWhite THEN 1 ELSE -1
        startRank == IF isWhite THEN 1 ELSE 6
        fwdRank == rankIdx + dir
        fwd == squareAt(fileIdx, fwdRank)
        fwd2 == squareAt(fileIdx, rankIdx + 2 * dir)
        capture(df) ==
            IF fileIdx + df >= 0 /\ fileIdx + df < 8
            THEN LET cap == squareAt(fileIdx + df, fwdRank)
                 IN  IF ps[cap] = Undefined \/ isWhite # isWhitePiece(ps[cap])
                     THEN <<cap>> ELSE <<>>
            ELSE <<>>
    IN  IF fwdRank >= 0 /\ fwdRank < 8
        THEN (IF ps[fwd] = Undefined
              THEN <<fwd>> \o (IF rankIdx = startRank /\ ps[fwd2] = Undefined
                               THEN <<fwd2>> ELSE <<>>)
              ELSE <<>>)
             \o capture(-1) \o capture(1)
        ELSE <<>>

\* case 'P'
pawnMoves(ps, isWhite, fileIdx, rankIdx) ==
    LET dir == IF isWhite THEN 1 ELSE -1
        startRank == IF isWhite THEN 1 ELSE 6
        fwdRank == rankIdx + dir
        fwd == squareAt(fileIdx, fwdRank)
        fwd2 == squareAt(fileIdx, rankIdx + 2 * dir)
        capture(df) ==
            IF fileIdx + df >= 0 /\ fileIdx + df < 8
            THEN LET cap == squareAt(fileIdx + df, fwdRank)
                 IN  IF ps[cap] # Undefined /\ isWhite # isWhitePiece(ps[cap])
                     THEN <<cap>> ELSE <<>>
            ELSE <<>>
    IN  IF fwdRank >= 0 /\ fwdRank < 8
        THEN (IF ps[fwd] = Undefined
              THEN <<fwd>> \o (IF rankIdx = startRank /\ ps[fwd2] = Undefined
                               THEN <<fwd2>> ELSE <<>>)
              ELSE <<>>)
             \o capture(-1) \o capture(1)
        ELSE <<>>

\* castling destinations that do not look at the b-file square
castlingMoves_ignoresB(ps, cs, isWhite, file, rank) ==
    IF isWhite /\ rank = "1" /\ file = "e"
    THEN (IF includes(cs, "K") /\ isEmpty(ps, <<"f","1">>) /\ isEmpty(ps, <<"g","1">>)
          THEN << <<"g","1">> >> ELSE <<>>)
         \o (IF includes(cs, "Q") /\ isEmpty(ps, <<"d","1">>) /\ isEmpty(ps, <<"c","1">>)
             THEN << <<"c","1">> >> ELSE <<>>)
    ELSE IF ~isWhite /\ rank = "8" /\ file = "e"
    THEN (IF includes(cs, "k") /\ isEmpty(ps, <<"f","8">>) /\ isEmpty(ps, <<"g","8">>)
          THEN << <<"g","8">> >> ELSE <<>>)
         \o (IF includes(cs, "q") /\ isEmpty(ps, <<"d","8">>) /\ isEmpty(ps, <<"c","8">>)
             THEN << <<"c","8">> >> ELSE <<>>)
    ELSE <<>>

\* case 'K', the part after the comment Castling
castlingMoves(ps, cs, isWhite, file, rank) ==
    IF isWhite /\ rank = "1" /\ file = "e"
    THEN (IF includes(cs, "K") /\ isEmpty(ps, <<"f","1">>) /\ isEmpty(ps, <<"g","1">>)
          THEN << <<"g","1">> >> ELSE <<>>)
         \o (IF includes(cs, "Q") /\ isEmpty(ps, <<"d","1">>) /\ isEmpty(ps, <<"c","1">>)
                 /\ isEmpty(ps, <<"b","1">>)
             THEN << <<"c","1">> >> ELSE <<>>)
    ELSE IF ~isWhite /\ rank = "8" /\ file = "e"
    THEN (IF includes(cs, "k") /\ isEmpty(ps, <<"f","8">>) /\ isEmpty(ps, <<"g","8">>)
          THEN << <<"g","8">> >> ELSE <<>>)
         \o (IF includes(cs, "q") /\ isEmpty(ps, <<"d","8">>) /\ isEmpty(ps, <<"c","8">>)
                 /\ isEmpty(ps, <<"b","8">>)
             THEN << <<"c","8">> >> ELSE <<>>)
    ELSE <<>>

\* getPseudoLegalMoves from the switch on: the moves of piece standing on square
pieceMoves(ps, cs, square, piece) ==
    LET file == square[1]
        rank == square[2]
        fileIdx == indexOf(FILES, file)
        rankIdx == indexOf(RANKS, rank)
        isWhite == isWhitePiece(piece)
        type == toUpperCase(piece)
    IN  CASE type = "P" -> pawnMoves(ps, isWhite, fileIdx, rankIdx)
          [] type = "N" -> addMoves(ps, isWhite, fileIdx, rankIdx, KnightOffsets)
          [] type = "B" -> addSlides(ps, isWhite, fileIdx, rankIdx, BishopDirs)
          [] type = "R" -> addSlides(ps, isWhite, fileIdx, rankIdx, RookDirs)
          [] type = "Q" -> addSlides(ps, isWhite, fileIdx, rankIdx, QueenDirs)
          [] type = "K" -> addMoves(ps, isWhite, fileIdx, rankIdx, KingOffsets)
                           \o castlingMoves(ps, cs, isWhite, file, rank)
          [] OTHER -> <<>>

\* a generator that lacks the test for a missing piece and falls into the
\* king's case
getPseudoLegalMoves_noPieceTest(ps, cs, square) ==
    pieceMoves(ps, cs, square, IF ps[square] = Undefined THEN "K" ELSE ps[square])

\* the array getPseudoLegalMoves returns, in the order of its pushes
getPseudoLegalMoves(ps, cs, square) ==
    IF ps[square] = Undefined THEN <<>>
    ELSE pieceMoves(ps, cs, square, ps[square])

\* --------------------------------------------------------- move application
\* a castle that revokes the kingside right only
executeCastling_kingsideOnly(ps, t, cs, kingFrom, kingTo) ==
    LET rank == kingFrom[2]
        isKingside == kingTo[1] = "g"
        ps1 == [ps EXCEPT ![kingTo] = ps[kingFrom], ![kingFrom] = Undefined]
        ps2 == IF isKingside
               THEN [ps1 EXCEPT ![<<"f", rank>>] = ps1[<<"h", rank>>],
                                ![<<"h", rank>>] = Undefined]
               ELSE [ps1 EXCEPT ![<<"d", rank>>] = ps1[<<"a", rank>>],
                                ![<<"a", rank>>] = Undefined]
    IN  [pieces |-> ps2,
         castling |-> IF t = "white" THEN replace(cs, "K") ELSE replace(cs, "k")]

executeCastling(ps, t, cs, kingFrom, kingTo) ==
    LET rank == kingFrom[2]
        isKingside == kingTo[1] = "g"
        ps1 == [ps EXCEPT ![kingTo] = ps[kingFrom], ![kingFrom] = Undefined]
        ps2 == IF isKingside
               THEN [ps1 EXCEPT ![<<"f", rank>>] = ps1[<<"h", rank>>],
                                ![<<"h", rank>>] = Undefined]
               ELSE [ps1 EXCEPT ![<<"d", rank>>] = ps1[<<"a", rank>>],
                                ![<<"a", rank>>] = Undefined]
    IN  [pieces |-> ps2,
         castling |-> IF t = "white" THEN replace(replace(cs, "K"), "Q")
                      ELSE replace(replace(cs, "k"), "q")]

\* the animateMove callback of attemptMove
applyBestMove(ps, t, from, to, bestMove) ==
    LET ps1 == [ps EXCEPT ![to] = ps[from], ![from] = Undefined]
    IN  IF Len(bestMove) = 5
        THEN [ps1 EXCEPT ![to] = IF t = "white" THEN toUpperCase(bestMove[5])
                                 ELSE toLowerCase(bestMove[5])]
        ELSE ps1

\* a callback that writes the piece to its destination and leaves it on from
applyUciMove_keepsFrom(ps, t, from, to, promo) ==
    LET ps1 == [ps EXCEPT ![to] = ps[from]]
    IN  IF promo # Null
        THEN [ps1 EXCEPT ![to] = IF t = "white" THEN toUpperCase(promo[1])
                                 ELSE toLowerCase(promo[1])]
        ELSE ps1

\* the animateMove callback of executeMove; promo is Null or a character
applyUciMove(ps, t, from, to, promo) ==
    LET ps1 == [ps EXCEPT ![to] = ps[from], ![from] = Undefined]
    IN  IF promo # Null
        THEN [ps1 EXCEPT ![to] = IF t = "white" THEN toUpperCase(promo[1])
                                 ELSE toLowerCase(promo[1])]
        ELSE ps1

\* --------------------------------------------------------------- verifying
\* a verifier that accepts the exact code only
isCorrectMove_exactOnly(bestMove, moveBase) == bestMove = moveBase

isCorrectMove(bestMove, moveBase) ==
    bestMove = moveBase \/ (startsWith(bestMove, moveBase) /\ Len(bestMove) = 5)

\* an attemptMove without its animation lock
attemptBlocked_never == FALSE

attemptBlocked == animating

\* an attemptMove that forgets to count
countAttempt_none(n) == n

\* state.totalAttempts++
countAttempt(n) == n + 1

\* history record of one verified attempt
Verified(h, from, to, bestMove, correct) ==
    [h EXCEPT !.n = h.n + 1, !.from = from, !.to = to, !.best = bestMove,
              !.correct = correct,
              !.nCorrect = IF correct THEN h.nCorrect + 1 ELSE h.nCorrect]

SolvedTask == Task("solved", Null, Null, <<>>, <<>>, 0)

\* the callback attemptMove hands to animateCastling / animateMove, up to the
\* call of afterMove
attemptCallback(ps, t, cs, from, to, bestMove, isCastle) ==
    IF isCastle THEN executeCastling(ps, t, cs, from, to)
    ELSE [pieces |-> applyBestMove(ps, t, from, to, bestMove), castling |-> cs]

\* attemptMove, branch isCorrect: the animation is started, or its callback
\* runs at once when the elements to animate are missing
attemptCorrect(from, to, bestMove) ==
    LET isCastle == isCastlingMove(pieces, from, to)
        animated == IF isCastle THEN hasCastlingElements(pieces, from, to)
                    ELSE hasPieceElement(pieces, from)
        done == attemptCallback(pieces, turn, castling, from, to, bestMove, isCastle)
        h == Verified(hist, from, to, puzzle.best_move, TRUE)
    IN  IF animated
        THEN /\ animating' = TRUE
             /\ tasks' = AddTask(tasks, Task(IF isCastle THEN "attemptCastle" ELSE "attemptAnim",
                                            from, to, bestMove, <<>>, 0))
             /\ hist' = h
             /\ UNCHANGED <<pieces, castling, lastMove>>
        ELSE /\ pieces' = done.pieces
             /\ castling' = done.castling
             /\ lastMove' = <<from, to>>
             /\ animating' = FALSE
             /\ tasks' = AddTask(tasks, SolvedTask)
             /\ hist' = Applied(h, "attempt", from, to, isCastle)

\* a wrong branch that leaves the attempted move on the board
attemptWrong_applied(from, to, bestMove) ==
    /\ hist' = Verified(hist, from, to, puzzle.best_move, FALSE)
    /\ IF hasPieceElement(pieces, from)
       THEN /\ animating' = TRUE
            /\ tasks' = AddTask(tasks, Task("wrong1", from, to, <<>>, <<>>, 0))
       ELSE /\ animating' = FALSE
            /\ UNCHANGED tasks
    /\ pieces' = [pieces EXCEPT ![to] = pieces[from], ![from] = Undefined]
    /\ UNCHANGED <<castling, lastMove>>

\* attemptMove, branch not isCorrect: animateWrongMove
attemptWrong(from, to, bestMove) ==
    /\ hist' = Verified(hist, from, to, puzzle.best_move, FALSE)
    /\ IF hasPieceElement(pieces, from)
       THEN /\ animating' = TRUE
            /\ tasks' = AddTask(tasks, Task("wrong1", from, to, <<>>, <<>>, 0))
       ELSE /\ animating' = FALSE
            /\ UNCHANGED tasks
    /\ UNCHANGED <<pieces, castling, lastMove>>

attemptMove(from, to) ==
    IF attemptBlocked
    THEN /\ hist' = [hist EXCEPT !.stale = TRUE]
         /\ UNCHANGED <<puzzle, solved, pieces, turn, lastMove, castling, totalSolved,
                        totalAttempts, animating, btnNextShown, tasks, loads>>
    ELSE LET move == from \o to
             bestMove == strToLowerCase(puzzle.best_move)
             moveBase == strToLowerCase(move)
         IN  /\ hist.n < MaxAttempts
             /\ totalAttempts' = countAttempt(totalAttempts)
             /\ IF isCorrectMove(bestMove, moveBase)
                THEN attemptCorrect(from, to, bestMove)
                ELSE attemptWrong(from, to, bestMove)
             /\ UNCHANGED <<puzzle, solved, turn, totalSolved, btnNextShown, loads>>

\* a selection that survives the attempt it leads to
selectSquare_keepsSelection(square) ==
    IF animating \/ solved
    THEN UNCHANGED <<puzzle, selectedSquare, solved, pieces, turn, lastMove, castling,
                     totalSolved, totalAttempts, animating, btnNextShown, tasks,
                     loads, hist>>
    ELSE IF selectedSquare = Null
    THEN /\ selectedSquare' = IF pieces[square] # Undefined /\ isOwnPiece(pieces, turn, square)
                              THEN square ELSE selectedSquare
         /\ UNCHANGED <<puzzle, solved, pieces, turn, lastMove, castling, totalSolved,
                        totalAttempts, animating, btnNextShown, tasks, loads, hist>>
    ELSE IF square = selectedSquare
    THEN /\ selectedSquare' = Null
         /\ UNCHANGED <<puzzle, solved, pieces, turn, lastMove, castling, totalSolved,
                        totalAttempts, animating, btnNextShown, tasks, loads, hist>>
    ELSE IF pieces[square] # Undefined /\ isOwnPiece(pieces, turn, square)
    THEN /\ selectedSquare' = square
         /\ UNCHANGED <<puzzle, solved, pieces, turn, lastMove, castling, totalSolved,
                        totalAttempts, animating, btnNextShown, tasks, loads, hist>>
    ELSE /\ selectedSquare' = selectedSquare
         /\ attemptMove(selectedSquare, square)

selectSquare(square) ==
    IF animating \/ solved
    THEN UNCHANGED <<puzzle, selectedSquare, solved, pieces, turn, lastMove, castling,
                     totalSolved, totalAttempts, animating, btnNextShown, tasks,
                     loads, hist>>
    ELSE IF selectedSquare = Null
    THEN /\ selectedSquare' = IF pieces[square] # Undefined /\ isOwnPiece(pieces, turn, square)
                              THEN square ELSE selectedSquare
         /\ UNCHANGED <<puzzle, solved, pieces, turn, lastMove, castling, totalSolved,
                        totalAttempts, animating, btnNextShown, tasks, loads, hist>>
    ELSE IF square = selectedSquare
    THEN /\ selectedSquare' = Null
         /\ UNCHANGED <<puzzle, solved, pieces, turn, lastMove, castling, totalSolved,
                        totalAttempts, animating, btnNextShown, tasks, loads, hist>>
    ELSE IF pieces[square] # Undefined /\ isOwnPiece(pieces, turn, square)
    THEN /\ selectedSquare' = square
         /\ UNCHANGED <<puzzle, solved, pieces, turn, lastMove, castling, totalSolved,
                        totalAttempts, animating, btnNextShown, tasks, loads, hist>>
    ELSE /\ selectedSquare' = Null
         /\ attemptMove(selectedSquare, square)

\* ------------------------------------------------------ pointer and touch
\* onMouseDown / onTouchStart on a board square
OnMouseDown(square) ==
    /\ ~(animating \/ solved)
    /\ isOwnPiece(pieces, turn, square)
    /\ dragging' = square
    /\ hasDragged' = FALSE
    /\ UNCHANGED <<puzzle, selectedSquare, solved, pieces, turn, lastMove, castling,
                   totalSolved, totalAttempts, animating, btnNextShown, tasks,
                   loads, hist>>

\* a drag that starts at the threshold itself
OnMouseMove_atThreshold(dx, dy) ==
    /\ dragging # Null
    /\ IF ~hasDragged /\ dx * dx + dy * dy >= DRAG_THRESHOLD * DRAG_THRESHOLD
       THEN /\ hasDragged' = TRUE
            /\ selectedSquare' = dragging
       ELSE UNCHANGED <<hasDragged, selectedSquare>>
    /\ UNCHANGED <<puzzle, solved, pieces, turn, lastMove, castling, dragging,
                   totalSolved, totalAttempts, animating, btnNextShown, tasks,
                   loads, hist>>

\* onMouseMove / onTouchMove at offset (dx, dy) from the press point;
\* Math.sqrt(dx*dx + dy*dy) > DRAG_THRESHOLD compared on the squares
OnMouseMove(dx, dy) ==
    /\ dragging # Null
    /\ IF ~hasDragged /\ dx * dx + dy * dy > DRAG_THRESHOLD * DRAG_THRESHOLD
       THEN /\ hasDragged' = TRUE
            /\ selectedSquare' = dragging
       ELSE UNCHANGED <<hasDragged, selectedSquare>>
    /\ UNCHANGED <<puzzle, solved, pieces, turn, lastMove, castling, dragging,
                   totalSolved, totalAttempts, animating, btnNextShown, tasks,
                   loads, hist>>

\* a release that treats a drop on the origin as a move
OnMouseUp_dropOnOrigin(dropSquare) ==
    LET wasDragging == dragging
        hadDragged == hasDragged
    IN  /\ dragging' = Null
        /\ hasDragged' = FALSE
        /\ IF hadDragged /\ wasDragging # Null /\ dropSquare # Null
           THEN /\ selectedSquare' = Null
                /\ attemptMove(wasDragging, dropSquare)
           ELSE IF ~hadDragged /\ wasDragging # Null
           THEN selectSquare(wasDragging)
           ELSE IF wasDragging = Null /\ dropSquare # Null
           THEN selectSquare(dropSquare)
           ELSE /\ selectedSquare' = Null
                /\ UNCHANGED <<puzzle, solved, pieces, turn, lastMove, castling,
                               totalSolved, totalAttempts, animating, btnNextShown,
                               tasks, loads, hist>>

\* onMouseUp / onTouchEnd; dropSquare is Null off the board
OnMouseUp(dropSquare) ==
    LET wasDragging == dragging
        hadDragged == hasDragged
    IN  /\ dragging' = Null
        /\ hasDragged' = FALSE
        /\ IF hadDragged /\ wasDragging # Null /\ dropSquare # Null /\ dropSquare # wasDragging
           THEN /\ selectedSquare' = Null
                /\ attemptMove(wasDragging, dropSquare)
           ELSE IF ~hadDragged /\ wasDragging # Null
           THEN selectSquare(wasDragging)
           ELSE IF wasDragging = Null /\ dropSquare # Null
           THEN selectSquare(dropSquare)
           ELSE /\ selectedSquare' = Null
                /\ UNCHANGED <<puzzle, solved, pieces, turn, lastMove, castling,
                               totalSolved, totalAttempts, animating, btnNextShown,
                               tasks, loads, hist>>

\* ------------------------------------------------------ animation callbacks
\* the timer of animateMove / animateCastling started by attemptMove fires:
\* the move is applied, afterMove runs and schedules the solved step
AttemptAnimDone(i) ==
    /\ i \in DOMAIN tasks
    /\ tasks[i].kind \in {"attemptAnim", "attemptCastle"}
    /\ LET tk == tasks[i]
           isCastle == tk.kind = "attemptCastle"
           done == attemptCallback(pieces, turn, castling, tk.from, tk.to, tk.bestMove, isCastle)
       IN  /\ pieces' = done.pieces
           /\ castling' = done.castling
           /\ lastMove' = <<tk.from, tk.to>>
           /\ animating' = FALSE
           /\ tasks' = AddTask(RemoveAt(tasks, i), Inherit(SolvedTask, tk))
           /\ hist' = Applied(hist, "attempt", tk.from, tk.to, isCastle)
    /\ UNCHANGED <<puzzle, selectedSquare, solved, turn, dragging, hasDragged,
                   totalSolved, totalAttempts, btnNextShown, loads>>

\* the first (60 ms) timer of animateWrongMove fires: styles only
WrongAnimBack(i) ==
    /\ i \in DOMAIN tasks
    /\ tasks[i].kind = "wrong1"
    /\ tasks' = AddTask(RemoveAt(tasks, i), [tasks[i] EXCEPT !.kind = "wrong2"])
    /\ UNCHANGED <<puzzle, selectedSquare, solved, pieces, turn, lastMove, castling,
                   dragging, hasDragged, totalSolved, totalAttempts, animating,
                   btnNextShown, loads, hist>>

\* the second (120 ms) timer of animateWrongMove fires: the snap-back callback
WrongAnimDone(i) ==
    /\ i \in DOMAIN tasks
    /\ tasks[i].kind = "wrong2"
    /\ animating' = FALSE
    /\ tasks' = RemoveAt(tasks, i)
    /\ UNCHANGED <<puzzle, selectedSquare, solved, pieces, turn, lastMove, castling,
                   dragging, hasDragged, totalSolved, totalAttempts, btnNextShown,
                   loads, hist>>

\* the 150 ms timer of afterMove fires; loadContinuation starts its fetch
SolvedTimer(i) ==
    /\ i \in DOMAIN tasks
    /\ tasks[i].kind = "solved"
    /\ solved' = TRUE
    /\ totalSolved' = totalSolved + 1
    /\ btnNextShown' = TRUE
    /\ hist' = [hist EXCEPT !.nSolved = hist.nSolved + 1]
    /\ tasks' = IF puzzle = NoPuzzle THEN RemoveAt(tasks, i)
                ELSE AddTask(RemoveAt(tasks, i),
                            Inherit(Task("contFetch", Null, Null, <<>>, <<>>, puzzle.id),
                                    tasks[i]))
    /\ UNCHANGED <<puzzle, selectedSquare, pieces, turn, lastMove, castling, dragging,
                   hasDragged, totalAttempts, animating, loads>>

\* ------------------------------------------------------------ continuation
\* playContinuation after a move's promise resolved: the next sleep(400), or
\* the end of the loop and state.animating = false
\* a loop that stops one move early
continueTasks_dropsLast(tk, rest, base) ==
    IF Len(rest) <= 1 THEN base
    ELSE AddTask(base, Played(Inherit(Task("contSleep", Null, Null, <<>>, rest, tk.pid), tk),
                              tk.done + 1))

continueTasks(tk, rest, base) ==
    IF rest = <<>> THEN base
    ELSE AddTask(base, Played(Inherit(Task("contSleep", Null, Null, <<>>, rest, tk.pid), tk),
                              tk.done + 1))

\* a playback that ends without state.animating = false
continueAnimating_keepsLock(rest, a) == a

continueAnimating(rest, a) == IF rest = <<>> THEN FALSE ELSE a

\* the callback executeMove hands to animateCastling / animateMove, up to the
\* call of afterAnim
executeCallback(ps, t, cs, uciMove, isCastle) ==
    LET from == SubSeq(uciMove, 1, 2)
        to == SubSeq(uciMove, 3, 4)
        promo == IF Len(uciMove) = 5 THEN <<uciMove[5]>> ELSE Null
    IN  IF isCastle THEN executeCastling(ps, t, cs, from, to)
        ELSE [pieces |-> applyUciMove(ps, t, from, to, promo), castling |-> cs]

\* afterAnim of executeMove: the side to move flips
flipTurn(t) == IF t = "white" THEN "black" ELSE "white"

\* the fetch of loadContinuation settles: it fails, answers not-OK or with no
\* moves (ok = FALSE), or answers with the moves and playContinuation starts
\* a loadContinuation that takes the lock before it looks at the answer
ContinuationLoaded_locksFirst(i, ok) ==
    /\ i \in DOMAIN tasks
    /\ tasks[i].kind = "contFetch"
    /\ animating' = TRUE
    /\ LET moves == IF ok THEN Continuation(tasks[i].pid) ELSE <<>>
       IN  IF moves # <<>>
           THEN tasks' = AddTask(RemoveAt(tasks, i),
                                 Inherit(Task("contSleep", Null, Null, <<>>, moves,
                                              tasks[i].pid), tasks[i]))
           ELSE tasks' = RemoveAt(tasks, i)
    /\ UNCHANGED <<puzzle, selectedSquare, solved, pieces, turn, lastMove, castling,
                   dragging, hasDragged, totalSolved, totalAttempts, btnNextShown,
                   loads, hist>>

ContinuationLoaded(i, ok) ==
    /\ i \in DOMAIN tasks
    /\ tasks[i].kind = "contFetch"
    /\ LET moves == IF ok THEN Continuation(tasks[i].pid) ELSE <<>>
       IN  IF moves # <<>>
           THEN /\ animating' = TRUE
                /\ tasks' = AddTask(RemoveAt(tasks, i),
                                   Inherit(Task("contSleep", Null, Null, <<>>, moves,
                                                tasks[i].pid), tasks[i]))
           ELSE /\ tasks' = RemoveAt(tasks, i)
                /\ UNCHANGED animating
    /\ UNCHANGED <<puzzle, selectedSquare, solved, pieces, turn, lastMove, castling,
                   dragging, hasDragged, totalSolved, totalAttempts, btnNextShown,
                   loads, hist>>

\* sleep(400) of playContinuation is over: executeMove starts the animation of
\* the next move, or runs its callback at once when the elements are missing
ContinuationSleepDone(i) ==
    /\ i \in DOMAIN tasks
    /\ tasks[i].kind = "contSleep"
    /\ LET uciMove == Head(tasks[i].moves)
           rest == Tail(tasks[i].moves)
           from == SubSeq(uciMove, 1, 2)
           to == SubSeq(uciMove, 3, 4)
           isCastle == isCastlingMove(pieces, from, to)
           animated == IF isCastle THEN hasCastlingElements(pieces, from, to)
                       ELSE hasPieceElement(pieces, from)
           done == executeCallback(pieces, turn, castling, uciMove, isCastle)
       IN  IF animated
           THEN /\ tasks' = AddTask(RemoveAt(tasks, i),
                                   Played(Inherit(Task(IF isCastle THEN "contCastle"
                                                       ELSE "contAnim",
                                                       from, to, uciMove, rest, tasks[i].pid),
                                                  tasks[i]), tasks[i].done))
                /\ UNCHANGED <<pieces, turn, castling, lastMove, animating, hist>>
           ELSE /\ pieces' = done.pieces
                /\ castling' = done.castling
                /\ turn' = flipTurn(turn)
                /\ lastMove' = <<from, to>>
                /\ animating' = continueAnimating(rest, animating)
                /\ tasks' = continueTasks(tasks[i], rest, RemoveAt(tasks, i))
                /\ hist' = Applied(hist, "continuation", from, to, isCastle)
    /\ UNCHANGED <<puzzle, selectedSquare, solved, dragging, hasDragged, totalSolved,
                   totalAttempts, btnNextShown, loads>>

\* the animation timer of a continuation move fires: the move is applied,
\* afterAnim runs, and playContinuation goes on with the rest of the list
ContinuationAnimDone(i) ==
    /\ i \in DOMAIN tasks
    /\ tasks[i].kind \in {"contAnim", "contCastle"}
    /\ LET tk == tasks[i]
           isCastle == tk.kind = "contCastle"
           done == executeCallback(pieces, turn, castling, tk.bestMove, isCastle)
       IN  /\ pieces' = done.pieces
           /\ castling' = done.castling
           /\ turn' = flipTurn(turn)
           /\ lastMove' = <<tk.from, tk.to>>
           /\ animating' = continueAnimating(tk.moves, animating)
           /\ tasks' = continueTasks(tk, tk.moves, RemoveAt(tasks, i))
           /\ hist' = Applied(hist, "continuation", tk.from, tk.to, isCastle)
    /\ UNCHANGED <<puzzle, selectedSquare, solved, dragging, hasDragged, totalSolved,
                   totalAttempts, btnNextShown, loads>>

\* ------------------------------------------------------------ puzzle loads
LoadTask == Task("loadFetch", Null, Null, <<>>, <<>>, 0)

\* click on btn-next: loadPuzzle starts its fetch
ClickNext ==
    /\ btnNextShown
    /\ loads < MaxLoads
    /\ loads' = loads + 1
    /\ tasks' = AddTask(tasks, LoadTask)
    /\ UNCHANGED <<puzzle, selectedSquare, solved, pieces, turn, lastMove, castling,
                   dragging, hasDragged, totalSolved, totalAttempts, animating,
                   btnNextShown, hist>>

\* click on btn-reset: the counters are cleared and loadPuzzle starts its fetch
ClickReset ==
    /\ loads < MaxLoads
    /\ loads' = loads + 1
    /\ totalSolved' = 0
    /\ totalAttempts' = 0
    /\ tasks' = AddTask(tasks, LoadTask)
    /\ UNCHANGED <<puzzle, selectedSquare, solved, pieces, turn, lastMove, castling,
                   dragging, hasDragged, animating, btnNextShown, hist>>

\* a load that leaves the drag state alone
PuzzleLoaded_keepsDrag(i, p) ==
    /\ i \in DOMAIN tasks
    /\ tasks[i].kind = "loadFetch"
    /\ tasks' = RemoveAt(tasks, i)
    /\ puzzle' = p
    /\ LET parsed == parseFen(p.fen)
       IN  IF parsed.threw
           THEN UNCHANGED <<selectedSquare, solved, pieces, turn, lastMove, castling,
                            dragging, hasDragged, animating, btnNextShown, hist>>
           ELSE /\ pieces' = parsed.pieces
                /\ hist' = [hist EXCEPT !.epoch = hist.epoch + 1]
                /\ turn' = parsed.turn
                /\ castling' = parsed.castling
                /\ solved' = FALSE
                /\ selectedSquare' = Null
                /\ UNCHANGED <<dragging, hasDragged>>
                /\ lastMove' = Null
                /\ animating' = FALSE
                /\ btnNextShown' = FALSE
    /\ UNCHANGED <<totalSolved, totalAttempts, loads>>

\* the fetch of loadPuzzle answers with puzzle p
PuzzleLoaded(i, p) ==
    /\ i \in DOMAIN tasks
    /\ tasks[i].kind = "loadFetch"
    /\ tasks' = RemoveAt(tasks, i)
    /\ puzzle' = p
    /\ LET parsed == parseFen(p.fen)
       IN  IF parsed.threw
           THEN UNCHANGED <<selectedSquare, solved, pieces, turn, lastMove, castling,
                            dragging, hasDragged, animating, btnNextShown, hist>>
           ELSE /\ pieces' = parsed.pieces
                /\ hist' = [hist EXCEPT !.epoch = hist.epoch + 1]
                /\ turn' = parsed.turn
                /\ castling' = parsed.castling
                /\ solved' = FALSE
                /\ selectedSquare' = Null
                /\ dragging' = Null
                /\ hasDragged' = FALSE
                /\ lastMove' = Null
                /\ animating' = FALSE
                /\ btnNextShown' = FALSE
    /\ UNCHANGED <<totalSolved, totalAttempts, loads>>

\* the fetch of loadPuzzle fails or answers not-OK: only a message is shown
PuzzleLoadFailed(i) ==
    /\ i \in DOMAIN tasks
    /\ tasks[i].kind = "loadFetch"
    /\ tasks' = RemoveAt(tasks, i)
    /\ UNCHANGED <<puzzle, selectedSquare, solved, pieces, turn, lastMove, castling,
                   dragging, hasDragged, totalSolved, totalAttempts, animating,
                   btnNextShown, loads, hist>>

\* ------------------------------------------------------------ specification
\* the state after init(): the first loadPuzzle is waiting for its answer
Init ==
    /\ puzzle = NoPuzzle
    /\ selectedSquare = Null
    /\ solved = FALSE
    /\ pieces = EmptyBoard
    /\ turn = "white"
    /\ lastMove = Null
    /\ castling = <<>>
    /\ dragging = Null
    /\ hasDragged = FALSE
    /\ totalSolved = 0
    /\ totalAttempts = 0
    /\ animating = FALSE
    /\ btnNextShown \in BOOLEAN
    /\ hist = NoHist
    /\ tasks = <<LoadTask>>
    /\ loads = 1
    /\ probe = NoProbe
    /\ coord = NoCoord

Next ==
    \/ \E square \in InputSquares : OnMouseDown(square) /\ UNCHANGED <<probe, coord>>
    \/ \E dx \in Deltas, dy \in Deltas : OnMouseMove(dx, dy) /\ UNCHANGED <<probe, coord>>
    \/ \E dropSquare \in InputSquares \cup {Null} : OnMouseUp(dropSquare) /\ UNCHANGED <<probe, coord>>
    \/ \E i \in DOMAIN tasks : AttemptAnimDone(i) /\ UNCHANGED <<probe, coord>>
    \/ \E i \in DOMAIN tasks : WrongAnimBack(i) /\ UNCHANGED <<probe, coord>>
    \/ \E i \in DOMAIN tasks : WrongAnimDone(i) /\ UNCHANGED <<probe, coord>>
    \/ \E i \in DOMAIN tasks : SolvedTimer(i) /\ UNCHANGED <<probe, coord>>
    \/ \E i \in DOMAIN tasks, ok \in BOOLEAN : ContinuationLoaded(i, ok) /\ UNCHANGED <<probe, coord>>
    \/ \E i \in DOMAIN tasks : ContinuationSleepDone(i) /\ UNCHANGED <<probe, coord>>
    \/ \E i \in DOMAIN tasks : ContinuationAnimDone(i) /\ UNCHANGED <<probe, coord>>
    \/ ClickNext /\ UNCHANGED <<probe, coord>>
    \/ ClickReset /\ UNCHANGED <<probe, coord>>
    \/ \E i \in DOMAIN tasks, p \in Puzzles : PuzzleLoaded(i, p) /\ UNCHANGED <<probe, coord>>
    \/ \E i \in DOMAIN tasks : PuzzleLoadFailed(i) /\ UNCHANGED <<probe, coord>>

Spec == Init /\ [][Next]_vars

TypeOK ==
    /\ totalAttempts \in 0..MaxAttempts
    /\ totalSolved \in 0..MaxAttempts
    /\ loads \in 1..MaxLoads

\* a pending timer fires or a pending fetch settles
TimerFires ==
    \E i \in DOMAIN tasks :
        \/ AttemptAnimDone(i)
        \/ WrongAnimBack(i)
        \/ WrongAnimDone(i)
        \/ SolvedTimer(i)
        \/ \E ok \in BOOLEAN : ContinuationLoaded(i, ok)
        \/ ContinuationSleepDone(i)
        \/ ContinuationAnimDone(i)
        \/ \E p \in Puzzles : PuzzleLoaded(i, p)
        \/ PuzzleLoadFailed(i)

\* the trainer on the puzzle loaded by init(), btn-next and btn-reset left
\* alone
NextLive ==
    \/ \E square \in InputSquares : OnMouseDown(square) /\ UNCHANGED <<probe, coord>>
    \/ \E dx \in Deltas, dy \in Deltas : OnMouseMove(dx, dy) /\ UNCHANGED <<probe, coord>>
    \/ \E dropSquare \in InputSquares \cup {Null} : OnMouseUp(dropSquare) /\ UNCHANGED <<probe, coord>>
    \/ \E i \in DOMAIN tasks : AttemptAnimDone(i) /\ UNCHANGED <<probe, coord>>
    \/ \E i \in DOMAIN tasks : WrongAnimBack(i) /\ UNCHANGED <<probe, coord>>
    \/ \E i \in DOMAIN tasks : WrongAnimDone(i) /\ UNCHANGED <<probe, coord>>
    \/ \E i \in DOMAIN tasks : SolvedTimer(i) /\ UNCHANGED <<probe, coord>>
    \/ \E i \in DOMAIN tasks, ok \in BOOLEAN : ContinuationLoaded(i, ok) /\ UNCHANGED <<probe, coord>>
    \/ \E i \in DOMAIN tasks : ContinuationSleepDone(i) /\ UNCHANGED <<probe, coord>>
    \/ \E i \in DOMAIN tasks : ContinuationAnimDone(i) /\ UNCHANGED <<probe, coord>>
    \/ \E i \in DOMAIN tasks, p \in Puzzles : PuzzleLoaded(i, p) /\ UNCHANGED <<probe, coord>>
    \/ \E i \in DOMAIN tasks : PuzzleLoadFailed(i) /\ UNCHANGED <<probe, coord>>

\* the browser fires every timer that is due and every fetch settles: as long
\* as a callback is pending, one of them eventually runs
SpecFair == Init /\ [][NextLive]_vars /\ WF_vars(TimerFires /\ UNCHANGED <<probe, coord>>)

\* ------------------------------------------------- the pointer gestures
\* what a pointer handler was called with and found: the event's square or
\* offsets, and selectedSquare, dragging, hasDragged, animating and solved
\* as they were when it was called
InputProbe(fn, square, dx, dy) ==
    [fn |-> fn, square |-> square, dx |-> dx, dy |-> dy, selected |-> selectedSquare,
     dragging |-> dragging, hasDragged |-> hasDragged, animating |-> animating,
     solved |-> solved]

\* the three pointer events, recorded as they are handled
PressOn(square) ==
    /\ OnMouseDown(square)
    /\ probe' = InputProbe("onMouseDown", square, 0, 0)
    /\ UNCHANGED coord

MoveBy(dx, dy) ==
    /\ OnMouseMove(dx, dy)
    /\ probe' = InputProbe("onMouseMove", Null, dx, dy)
    /\ UNCHANGED coord

ReleaseOn(dropSquare) ==
    /\ OnMouseUp(dropSquare)
    /\ probe' = InputProbe("onMouseUp", dropSquare, 0, 0)
    /\ UNCHANGED coord

\* the trainer on the puzzle loaded by init(), each pointer event recorded
NextInput ==
    \/ \E square \in InputSquares : PressOn(square)
    \/ \E dx \in Deltas, dy \in Deltas : MoveBy(dx, dy)
    \/ \E dropSquare \in InputSquares \cup {Null} : ReleaseOn(dropSquare)
    \/ \E i \in DOMAIN tasks : AttemptAnimDone(i) /\ UNCHANGED <<probe, coord>>
    \/ \E i \in DOMAIN tasks : WrongAnimBack(i) /\ UNCHANGED <<probe, coord>>
    \/ \E i \in DOMAIN tasks : WrongAnimDone(i) /\ UNCHANGED <<probe, coord>>
    \/ \E i \in DOMAIN tasks : SolvedTimer(i) /\ UNCHANGED <<probe, coord>>
    \/ \E i \in DOMAIN tasks, ok \in BOOLEAN : ContinuationLoaded(i, ok) /\ UNCHANGED <<probe, coord>>
    \/ \E i \in DOMAIN tasks : ContinuationSleepDone(i) /\ UNCHANGED <<probe, coord>>
    \/ \E i \in DOMAIN tasks : ContinuationAnimDone(i) /\ UNCHANGED <<probe, coord>>
    \/ \E i \in DOMAIN tasks, p \in Puzzles : PuzzleLoaded(i, p) /\ UNCHANGED <<probe, coord>>
    \/ \E i \in DOMAIN tasks : PuzzleLoadFailed(i) /\ UNCHANGED <<probe, coord>>

SpecInput == Init /\ [][NextInput]_vars

\* ------------------------------------------- parseFen called on its own
\* The rows, side-to-move tokens and castling tokens the positions handed to
\* parseFen are made of. Rows of width 7 and 9 and placements of 7 rows are
\* among them.
Row8List == << <<"8">>, <<"r","3","k","2","r">>, <<"7">>, <<"4","k","4">>,
               <<"r","n","b","q","k","b","n","r">> >>
Row2List == << <<"8">>, <<"4","K","3">>, <<"p","1","P","2","n","B","1">> >>
Row1List == << <<"R","3","K","2","R">>, <<"4","K","3">>, <<"4","R","3">>,
               <<"3","K","3">>, <<"R","3","K","2","R","N">> >>
TurnTokens == { <<"w">>, <<"b">> }
CastlingTokens == { <<"-">>, <<"K","Q","k","q">>, <<"K","Q">>, <<"K","q">>,
                    <<"x">>, <<"A","H","a","h">>, <<"Q","x","k">> }

Range(seq) == {seq[i] : i \in DOMAIN seq}

\* rows joined by '/'
RECURSIVE joinRows(_)
joinRows(rows) ==
    IF Len(rows) = 1 THEN rows[1]
    ELSE rows[1] \o <<"/">> \o joinRows(Tail(rows))

\* a position text with nMiddle rows "8" between rank 8 and rank 2
FenText(row8, nMiddle, row2, row1, turnTok, castTok) ==
    joinRows(<<row8>> \o [k \in 1..nMiddle |-> <<"8">>] \o <<row2, row1>>)
    \o <<" ">> \o turnTok \o <<" ">> \o castTok \o <<" ", "-">>

FenInputs ==
    { FenText(row8, nMiddle, row2, row1, turnTok, castTok) :
        row8 \in Range(Row8List), nMiddle \in {4, 5}, row2 \in Range(Row2List),
        row1 \in Range(Row1List), turnTok \in TurnTokens, castTok \in CastlingTokens }

\* everything of the trainer at rest: no puzzle, no pending callback
AtRest ==
    /\ puzzle = NoPuzzle
    /\ selectedSquare = Null
    /\ solved = FALSE
    /\ lastMove = Null
    /\ dragging = Null
    /\ hasDragged = FALSE
    /\ totalSolved = 0
    /\ totalAttempts = 0
    /\ animating = FALSE
    /\ btnNextShown = FALSE
    /\ hist = NoHist
    /\ tasks = <<>>
    /\ loads = 1
    /\ coord = NoCoord

restVars == <<puzzle, selectedSquare, solved, dragging, hasDragged, totalSolved,
              totalAttempts, animating, btnNextShown, tasks, loads, hist, coord>>

InitParse ==
    /\ AtRest
    /\ pieces = EmptyBoard
    /\ turn = "white"
    /\ castling = <<>>
    /\ probe \in {[NoProbe EXCEPT !.fn = "input", !.fen = fen] : fen \in FenInputs}

\* parseFen(fen) is called and, as loadPuzzle does, what it returns becomes
\* the board; when it throws nothing is assigned
ParseCall ==
    /\ probe.fn = "input"
    /\ LET parsed == parseFen(probe.fen)
       IN  /\ probe' = [probe EXCEPT !.fn = "parseFen", !.threw = parsed.threw]
           /\ IF parsed.threw
              THEN UNCHANGED <<pieces, turn, castling>>
              ELSE /\ pieces' = parsed.pieces
                   /\ turn' = parsed.turn
                   /\ castling' = parsed.castling
    /\ UNCHANGED <<lastMove, restVars>>

\* getPseudoLegalMoves(square) is called on the board; it assigns nothing
GenerateAt(square) ==
    /\ probe.fn \in {"parseFen", "board", "executeMove"}
    /\ ~probe.threw
    /\ probe' = [probe EXCEPT !.fn = "getPseudoLegalMoves", !.square = square,
                              !.moves = getPseudoLegalMoves(pieces, castling, square)]
    /\ UNCHANGED <<pieces, turn, castling, lastMove>>
    /\ UNCHANGED restVars

\* the home squares of the kings and the king's square of the example
KingSquares == { <<"e","1">>, <<"e","8">>, <<"e","2">> }

NextParse ==
    \/ ParseCall
    \/ \E square \in KingSquares : GenerateAt(square)

SpecParse == InitParse /\ [][NextParse]_vars

\* ---------------------------------- getPseudoLegalMoves called on its own
\* how many pieces besides the mover a generated board holds
MaxObstacles == 2
\* how many generated moves are applied in a row
MaxPly == 1

GenPieces == {"P", "N", "B", "R", "Q", "K", "p", "n", "b", "r", "q", "k"}
GenOrigins == { <<"e","1">>, <<"e","2">>, <<"e","7">>, <<"e","8">> }
ObstacleSquares ==
    { <<"b","1">>, <<"c","1">>, <<"d","1">>, <<"f","1">>, <<"g","1">>,
      <<"d","3">>, <<"e","3">>, <<"e","4">>,
      <<"b","8">>, <<"c","8">>, <<"d","8">>, <<"f","8">>, <<"g","8">>,
      <<"d","6">>, <<"e","6">>, <<"e","5">> }
ObstaclePieces == {"N", "n"}
GenCastling == { <<>>, <<"K","Q","k","q">>, <<"K","q">>, <<"Q","k">> }

\* the obstacle squares within two ranks of the mover
NearSquares(origin) ==
    {sq \in ObstacleSquares :
        Abs(indexOf(RANKS, sq[2]) - indexOf(RANKS, origin[2])) <= 2}

\* the boards made of a mover on its origin and at most MaxObstacles knights
GenBoards(origin, piece) ==
    { [sq \in AllSquares |->
          IF sq = origin THEN piece
          ELSE IF sq \in DOMAIN obs THEN obs[sq] ELSE Undefined] :
        obs \in UNION { [S -> ObstaclePieces] :
                          S \in {T \in SUBSET NearSquares(origin) :
                                    Cardinality(T) <= MaxObstacles} } }

\* the boards of the puzzles that parse
PuzzleBoards == {parseFen(p.fen) : p \in {q \in Puzzles : ~parseFen(q.fen).threw}}

InitGen ==
    /\ AtRest
    /\ lastMove = Null
    /\ \/ \E origin \in GenOrigins, piece \in GenPieces :
             /\ pieces \in GenBoards(origin, piece)
             /\ turn = (IF isWhitePiece(piece) THEN "white" ELSE "black")
             /\ castling \in (IF toUpperCase(piece) = "K" THEN GenCastling ELSE {<<>>})
             /\ probe = [NoProbe EXCEPT !.fn = "board", !.from = origin]
       \/ \E parsed \in PuzzleBoards, origin \in GenOrigins :
             /\ pieces = parsed.pieces
             /\ turn = parsed.turn
             /\ castling = parsed.castling
             /\ probe = [NoProbe EXCEPT !.fn = "board", !.from = origin]

\* executeMove(from + to) for a generated destination, its animation
\* callback and afterAnim taken at once
ApplyGenerated(to) ==
    /\ probe.fn = "getPseudoLegalMoves"
    /\ probe.ply < MaxPly
    /\ to \in Range(probe.moves)
    /\ LET from == probe.square
           isCastle == isCastlingMove(pieces, from, to)
           done == executeCallback(pieces, turn, castling, from \o to, isCastle)
       IN  /\ pieces' = done.pieces
           /\ castling' = done.castling
           /\ turn' = flipTurn(turn)
           /\ lastMove' = <<from, to>>
           /\ probe' = [probe EXCEPT !.fn = "executeMove", !.from = from, !.to = to,
                                     !.white = isWhitePiece(pieces[from]),
                                     !.ply = probe.ply + 1]
    /\ UNCHANGED restVars

\* the squares getPseudoLegalMoves is called on: the mover's square and two
\* more on a fresh board, the destination after a move
ProbeSquares ==
    IF probe.fn = "executeMove" THEN {probe.to}
    ELSE {probe.from, <<"d","1">>, <<"e","6">>}

NextGen ==
    \/ \E square \in ProbeSquares : GenerateAt(square)
    \/ \E to \in AllSquares : ApplyGenerated(to)

SpecGen == InitGen /\ [][NextGen]_vars

\* ------------------------------------------------------ coordinate trainer
\* how many answers a session records, and how many questions it asks
MaxCoordAttempts == 2
MaxQuestions == 3

Modes == {"find", "name", "color"}
\* the values of the data-timer buttons: off, or a number of seconds
TimerChoices == {0, 5}

\* the answers handleAnswer is called with besides a square
Timeout == <<"_", "_", "t", "i", "m", "e", "o", "u", "t", "_", "_">>
Light == <<"l", "i", "g", "h", "t">>
Dark == <<"d", "a", "r", "k">>

Digits == <<"0", "1", "2", "3", "4", "5", "6", "7", "8", "9">>

\* parseInt of a one-digit string
parseInt(char) == indexOf(Digits, char)

\* String.prototype.trim
trim(s) ==
    LET inked == {i \in DOMAIN s : s[i] # " "}
    IN  IF inked = {} THEN <<>>
        ELSE SubSeq(s, CHOOSE i \in inked : \A j \in inked : i <= j,
                       CHOOSE i \in inked : \A j \in inked : i >= j)

isLightSquare(file, rank) ==
    LET fileIdx == indexOf(FILES, file)
        rankIdx == parseInt(rank)
    IN  (fileIdx + rankIdx) % 2 = 1

stopTimer(c) == [c EXCEPT !.timerInterval = FALSE]

\* startTimer with the timer-fill element present
startTimer(c) == [stopTimer(c) EXCEPT !.timerInterval = TRUE]

\* newQuestion with randomSquare() = sq; question counts the questions asked
newQuestion(c, sq) ==
    LET asked == [c EXCEPT !.waiting = FALSE, !.currentSquare = sq,
                           !.question = c.question + 1]
    IN  IF asked.timer > 0 THEN startTimer(asked) ELSE asked

\* isCorrect as handleAnswer computes it
isCorrectAnswer(c, answer) ==
    CASE c.mode = "find" -> answer = c.currentSquare
      [] c.mode = "name" -> strToLowerCase(trim(answer)) = c.currentSquare
      [] c.mode = "color" ->
            (answer = Light) = isLightSquare(c.currentSquare[1], c.currentSquare[2])

\* handleAnswer: the answer is recorded and setTimeout(newQuestion) is
\* scheduled; pending holds, for each such timeout, the question it was
\* scheduled for
handleAnswer(c, answer) ==
    IF c.waiting THEN c
    ELSE [c EXCEPT !.attempts = c.attempts + 1,
                   !.correct = IF isCorrectAnswer(c, answer) THEN c.correct + 1
                               ELSE c.correct,
                   !.waiting = TRUE,
                   !.pending = Append(c.pending, c.question)]

puzzleVars == <<puzzle, selectedSquare, solved, pieces, turn, lastMove, castling,
                dragging, hasDragged, totalSolved, totalAttempts, animating,
                btnNextShown, tasks, loads, hist, probe>>

\* init(): the handlers are bound and the first question is asked
CoordInit ==
    /\ coord.question = 0
    /\ \E sq \in AllSquares : coord' = newQuestion(coord, sq)
    /\ UNCHANGED puzzleVars

\* the page is running and may record one more answer
Answerable == coord.question > 0 /\ (coord.waiting \/ coord.attempts < MaxCoordAttempts)
Askable == coord.question > 0 /\ coord.question < MaxQuestions

\* click on a board square
handleSquareClick(square) ==
    /\ Answerable
    /\ coord.mode = "find"
    /\ ~coord.waiting
    /\ coord' = handleAnswer(coord, square)
    /\ UNCHANGED puzzleVars

\* click on a data-color button
handleColorAnswer(color) ==
    /\ Answerable
    /\ coord.mode = "color"
    /\ ~coord.waiting
    /\ coord' = handleAnswer(coord, color)
    /\ UNCHANGED puzzleVars

\* what is typed into square-input: the square, in capitals, with a blank
\* before it, or another square
NameValues ==
    IF coord.currentSquare = Null THEN {}
    ELSE {coord.currentSquare,
          <<toUpperCase(coord.currentSquare[1]), coord.currentSquare[2]>>,
          <<" ">> \o coord.currentSquare, <<"a", "1">>}

\* handleKeydown, Enter in the input (shown in mode name only)
EnterName(value) ==
    /\ Answerable
    /\ coord.mode = "name"
    /\ Len(value) >= 2
    /\ coord' = handleAnswer(coord, value)
    /\ UNCHANGED puzzleVars

\* the interval callback of startTimer finds remaining <= 0
TimerExpired ==
    /\ Answerable
    /\ coord.timerInterval
    /\ coord' = handleAnswer(stopTimer(coord), Timeout)
    /\ UNCHANGED puzzleVars

\* a timeout set by handleAnswer fires: newQuestion
NextQuestionTimer(i) ==
    /\ Askable
    /\ i \in DOMAIN coord.pending
    /\ \E sq \in AllSquares :
          coord' = newQuestion([coord EXCEPT !.pending = RemoveAt(coord.pending, i)], sq)
    /\ UNCHANGED puzzleVars

\* handleKeydown, Space: the wait is skipped
KeySpace ==
    /\ Askable
    /\ coord.waiting
    /\ \E sq \in AllSquares :
          coord' = newQuestion([coord EXCEPT !.waiting = FALSE], sq)
    /\ UNCHANGED puzzleVars

\* btn-reset or the key r
resetSession ==
    /\ Askable
    /\ \E sq \in AllSquares :
          coord' = newQuestion([coord EXCEPT !.attempts = 0, !.correct = 0], sq)
    /\ UNCHANGED puzzleVars

\* a data-mode button or the keys 1, 2, 3
setMode(mode) ==
    /\ Askable
    /\ \E sq \in AllSquares : coord' = newQuestion([coord EXCEPT !.mode = mode], sq)
    /\ UNCHANGED puzzleVars

\* a data-timer button
setTimer(seconds) ==
    /\ coord.question > 0
    /\ coord' = stopTimer([coord EXCEPT !.timer = seconds])
    /\ UNCHANGED puzzleVars

InitCoord ==
    /\ AtRest
    /\ pieces = EmptyBoard
    /\ turn = "white"
    /\ castling = <<>>
    /\ probe = NoProbe

NextCoord ==
    \/ CoordInit
    \/ \E square \in AllSquares : handleSquareClick(square)
    \/ \E color \in {Light, Dark} : handleColorAnswer(color)
    \/ \E value \in NameValues : EnterName(value)
    \/ TimerExpired
    \/ \E i \in DOMAIN coord.pending : NextQuestionTimer(i)
    \/ KeySpace
    \/ resetSession
    \/ \E mode \in Modes : setMode(mode)
    \/ \E seconds \in TimerChoices : setTimer(seconds)

SpecCoord == InitCoord /\ [][NextCoord]_vars

\* ------------------------------------------------------------------ claims
Sq(f, r) == <<f, r>>

\* a step in which attemptMove passed its guard and verified an attempt
AttemptAccepted == hist'.n = hist.n + 1

\* a step in which a move was written to the board, from an attempt or from
\* the continuation
MoveApplied == hist'.applied.n = hist.applied.n + 1

PointerEvent ==
    \/ \E square \in InputSquares : OnMouseDown(square)
    \/ \E dx \in Deltas, dy \in Deltas : OnMouseMove(dx, dy)
    \/ \E dropSquare \in InputSquares \cup {Null} : OnMouseUp(dropSquare)

PendingKinds(kinds) == {j \in DOMAIN tasks : tasks[j].kind \in kinds}

\* C1: an attempt is accepted only when nothing started by an earlier attempt
\* is still pending: no move or snap-back animation, no delayed solved step,
\* no continuation fetch and no continuation playback.
C1_NoAttemptWhileResolving ==
    [][AttemptAccepted => \A j \in DOMAIN tasks : tasks[j].kind = "loadFetch"]_vars

\* C2: while animating is true, a pointer or touch event changes none of
\* totalAttempts, totalSolved, pieces, turn and castling.
C2_NoAttemptWhileAnimating ==
    [][(animating /\ PointerEvent)
       => UNCHANGED <<totalAttempts, totalSolved, pieces, turn, castling>>]_vars

\* C2 witness: a drag was released on another square while animating was
\* true, and attemptMove returned at its lock.
C2_Witness ==
    /\ animating
    /\ hist.stale
    /\ dragging = Null
    /\ totalAttempts = 1

\* C3: while solved is true no attempt is accepted.
C3_NoAttemptWhileSolved == [][solved => ~AttemptAccepted]_vars

JudgedCorrect(best, from, to) ==
    \/ from \o to = best
    \/ Len(best) = 5 /\ SubSeq(best, 1, 4) = from \o to

\* C4: the last verified attempt was judged Correct exactly when from+to is
\* the puzzle's best-move code, or that code has five characters of which the
\* first four are from+to; with e7e8q, (e7, e8) is Correct and (e7, d8) is not.
C4_CorrectIffBestMove ==
    hist.n > 0 =>
        /\ hist.correct <=> JudgedCorrect(hist.best, hist.from, hist.to)
        /\ (hist.best = <<"e","7","e","8","q">> /\ hist.from = Sq("e","7"))
            => /\ hist.to = Sq("e","8") => hist.correct
               /\ hist.to = Sq("d","8") => ~hist.correct

\* C4 witness: (e7, e8) was judged Correct against e7e8q.
C4_Witness ==
    /\ hist.n > 0
    /\ hist.best = <<"e","7","e","8","q">>
    /\ hist.from = Sq("e","7")
    /\ hist.to = Sq("e","8")
    /\ hist.correct

\* C5: the step that verifies an Incorrect attempt, and the steps of its
\* snap-back animation, leave pieces, turn, castling and lastMove unchanged.
C5_IncorrectKeepsBoard ==
    [][((AttemptAccepted /\ ~hist'.correct)
        \/ (\E i \in DOMAIN tasks : WrongAnimBack(i) \/ WrongAnimDone(i)))
       => UNCHANGED boardVars]_vars

\* C5 witness: an Incorrect attempt whose snap-back callback has run.
C5_Witness ==
    /\ hist.n > 0
    /\ ~hist.correct
    /\ hist.nCorrect = 0
    /\ ~animating
    /\ PendingKinds({"wrong1", "wrong2"}) = {}

\* C6: the step that applies a Correct attempt flips the side to move.
C6_CorrectFlipsTurn ==
    [][(MoveApplied /\ hist'.applied.src = "attempt") => turn' = flipTurn(turn)]_vars

\* C7: a verified attempt adds exactly one to totalAttempts and leaves
\* totalSolved alone; totalSolved changes only by the reset or by one, in the
\* solved step; every Correct attempt has exactly one solved step, done or
\* still pending.
C7_Counters ==
    /\ [](hist.nCorrect =
            hist.nSolved + Cardinality(PendingKinds({"attemptAnim", "attemptCastle", "solved"})))
    /\ [][/\ AttemptAccepted => /\ totalAttempts' = totalAttempts + 1
                                /\ totalSolved' = totalSolved
          /\ hist'.nSolved = hist.nSolved + 1 => totalSolved' = totalSolved + 1
          /\ totalSolved' # totalSolved
               => \/ hist'.nSolved = hist.nSolved + 1
                  \/ totalSolved' = 0 /\ loads' = loads + 1]_vars

\* C7 witness: one Incorrect and one Correct attempt, the solved step done.
C7_Witness ==
    /\ hist.n = 2
    /\ hist.nCorrect = 1
    /\ hist.nSolved = 1
    /\ totalAttempts = 2
    /\ totalSolved = 1

Rights == {"K", "Q", "k", "q"}

\* the castle of the king on from to the square to, from board ps with rights
\* cs to board ps2 with rights cs2, as the castling rule has it
CastledAtomically(ps, cs, ps2, cs2, from, to) ==
    LET king == ps[from]
        rank == from[2]
        rookFrom == IF to[1] = "g" THEN Sq("h", rank) ELSE Sq("a", rank)
        rookTo == IF to[1] = "g" THEN Sq("f", rank) ELSE Sq("d", rank)
        own == IF isWhitePiece(king) THEN {"K", "Q"} ELSE {"k", "q"}
    IN  /\ to[1] \in {"g", "c"}
        /\ toUpperCase(ps[rookFrom]) = "R"
        /\ ps2[to] = king
        /\ ps2[from] = Undefined
        /\ ps2[rookTo] = ps[rookFrom]
        /\ ps2[rookFrom] = Undefined
        /\ \A sq \in AllSquares \ {from, to, rookFrom, rookTo} : ps2[sq] = ps[sq]
        /\ \A c \in own : ~includes(cs2, c)
        /\ \A c \in Rights \ own : includes(cs2, c) <=> includes(cs, c)

KingShiftsTwoFiles(ps, from, to) ==
    /\ ps[from] \in {"K", "k"}
    /\ Abs(indexOf(FILES, to[1]) - indexOf(FILES, from[1])) = 2

\* C8: every step that applies a two-file king move, from an attempt or from
\* the continuation, relocates exactly the rook of that side on the king's
\* rank, revokes both rights of the king's colour and keeps the other
\* colour's rights.
C8_CastlingAtomic ==
    [][(MoveApplied /\ KingShiftsTwoFiles(pieces, hist'.applied.from, hist'.applied.to))
       => CastledAtomically(pieces, castling, pieces', castling',
                            hist'.applied.from, hist'.applied.to)]_vars

\* C9: the step that applies the Correct attempt (e1, g1) with white to move,
\* the king on e1 and a rook on h1 leaves the king on g1, the rook on f1, e1
\* and h1 empty, neither K nor Q in castling, and k and q as they were.
C9_WhiteKingsideCastle ==
    [][(/\ MoveApplied
        /\ hist'.applied.src = "attempt"
        /\ hist'.applied.from = Sq("e", "1")
        /\ hist'.applied.to = Sq("g", "1")
        /\ turn = "white"
        /\ pieces[Sq("e", "1")] = "K"
        /\ pieces[Sq("h", "1")] = "R")
       => /\ pieces'[Sq("g", "1")] = "K"
          /\ pieces'[Sq("f", "1")] = "R"
          /\ pieces'[Sq("e", "1")] = Undefined
          /\ pieces'[Sq("h", "1")] = Undefined
          /\ ~includes(castling', "K")
          /\ ~includes(castling', "Q")
          /\ includes(castling', "k") <=> includes(castling, "k")
          /\ includes(castling', "q") <=> includes(castling, "q")]_vars

\* C9 witness: the castle e1g1 of a Correct attempt has been applied and the
\* black rights are still there.
C9_Witness ==
    /\ hist.applied.src = "attempt"
    /\ hist.applied.from = Sq("e", "1")
    /\ hist.applied.to = Sq("g", "1")
    /\ hist.applied.castle
    /\ pieces[Sq("g", "1")] = "K"
    /\ pieces[Sq("f", "1")] = "R"
    /\ castling = <<"k", "q">>

\* the home squares of the king and of the rook of a castling right
HomeSquares(c) ==
    CASE c = "K" -> {Sq("e", "1"), Sq("h", "1")}
      [] c = "Q" -> {Sq("e", "1"), Sq("a", "1")}
      [] c = "k" -> {Sq("e", "8"), Sq("h", "8")}
      [] c = "q" -> {Sq("e", "8"), Sq("a", "8")}

\* C10: every step that applies a non-castling move which leaves or lands on
\* the home square of the king or of the rook of a castling right ends with
\* that right absent from castling.
C10_RightsRevokedOnMove ==
    [][(/\ MoveApplied
        /\ pieces[hist'.applied.from] # Undefined
        /\ ~KingShiftsTwoFiles(pieces, hist'.applied.from, hist'.applied.to))
       => \A c \in Rights :
            (hist'.applied.from \in HomeSquares(c) \/ hist'.applied.to \in HomeSquares(c))
                => ~includes(castling', c)]_vars

\* a step in which the pending callback i ran
Fired(i) ==
    \/ AttemptAnimDone(i)
    \/ WrongAnimBack(i)
    \/ WrongAnimDone(i)
    \/ SolvedTimer(i)
    \/ ContinuationSleepDone(i)
    \/ ContinuationAnimDone(i)
    \/ \E ok \in BOOLEAN : ContinuationLoaded(i, ok)

\* the callback i descends from a puzzle load that has since been replaced
StaleTask(i) == tasks[i].epoch # hist.epoch

\* C11: once a new puzzle is loaded, no timer and no queued continuation move
\* left over from the previous puzzle changes the new board: a step in which
\* such a callback runs leaves pieces, turn, castling and lastMove unchanged.
C11_NoStaleMutation ==
    [][\A i \in DOMAIN tasks : (StaleTask(i) /\ Fired(i)) => UNCHANGED boardVars]_vars

\* a step in which playContinuation took its next step for the pending callback i
PlaybackStep(i) == ContinuationSleepDone(i) \/ ContinuationAnimDone(i)

\* the rest of the playback of tk after its move number n, as pending in pool
PlaybackGoesOn(pool, tk, n) ==
    LET list == Continuation(tk.pid)
    IN  IF n = Len(list)
        THEN TRUE
        ELSE \E j \in DOMAIN pool :
                 /\ pool[j].kind = "contSleep"
                 /\ pool[j].pid = tk.pid
                 /\ pool[j].done = n
                 /\ pool[j].moves = SubSeq(list, n + 1, Len(list))

\* C12: a playback applies the moves of its list in list order, one at a time:
\* a step of the playback that has applied n moves either only starts the
\* animation of move n+1 and leaves the board alone, or applies exactly move
\* n+1 of the list, flips the side to move once, and leaves the moves from
\* n+2 on to be played.
C12_ContinuationInOrder ==
    [][\A i \in DOMAIN tasks : PlaybackStep(i) =>
          LET tk == tasks[i]
              uciMove == Continuation(tk.pid)[tk.done + 1]
          IN  IF MoveApplied
              THEN /\ hist'.applied.src = "continuation"
                   /\ hist'.applied.from = SubSeq(uciMove, 1, 2)
                   /\ hist'.applied.to = SubSeq(uciMove, 3, 4)
                   /\ lastMove' = <<SubSeq(uciMove, 1, 2), SubSeq(uciMove, 3, 4)>>
                   /\ turn' = flipTurn(turn)
                   /\ PlaybackGoesOn(tasks', tk, tk.done + 1)
              ELSE /\ UNCHANGED boardVars
                   /\ \E j \in DOMAIN tasks' :
                          /\ tasks'[j].kind \in {"contAnim", "contCastle"}
                          /\ tasks'[j].bestMove = uciMove
                          /\ tasks'[j].done = tk.done]_vars

\* a playback has applied both moves of its list, in order
C12_Witness ==
    /\ puzzle.id = 2
    /\ hist.applied.src = "continuation"
    /\ hist.applied.from = Sq("e", "1")
    /\ hist.applied.to = Sq("e", "2")
    /\ pieces[Sq("e", "8")] = "r"
    /\ pieces[Sq("e", "2")] = "K"
    /\ PendingKinds({"contSleep", "contAnim", "contCastle"}) = {}

\* the moves of a started playback are not all applied yet
PlaybackRunning == PendingKinds({"contSleep", "contAnim", "contCastle"}) # {}

\* C13: animating is true in every state from the start of a playback until
\* its last move is applied, whatever other callbacks run in between.
C13_AnimatingDuringPlayback == PlaybackRunning => animating

\* the number of files a row of a placement describes: a digit counts for
\* its value, any other character for one file
RECURSIVE RowWidth(_)
RowWidth(row) ==
    IF row = <<>> THEN 0
    ELSE (IF indexOf(RANKS, Head(row)) >= 0 THEN indexOf(RANKS, Head(row)) + 1 ELSE 1)
         + RowWidth(Tail(row))

PlacementRows(fen) == split(split(fen, " ")[1], "/")

Malformed(fen) ==
    \/ Len(PlacementRows(fen)) < 8
    \/ \E k \in DOMAIN PlacementRows(fen) : RowWidth(PlacementRows(fen)[k]) # 8

\* C14: parsing fails whenever some row of the placement does not sum to 8
\* files and whenever the placement has fewer than 8 rows, and then no board
\* is produced.
C14_MalformedRejected ==
    (probe.fn = "parseFen" /\ Malformed(probe.fen)) => (probe.threw /\ pieces = EmptyBoard)

\* a step in which a loadPuzzle got its answer and parseFen threw on it
LoadFailedToParse ==
    \E i \in DOMAIN tasks, p \in Puzzles : PuzzleLoaded(i, p) /\ parseFen(p.fen).threw

\* C15: a load that fails because the position cannot be parsed leaves the
\* puzzle with its best move, the pieces, the side to move, the castling
\* rights, solved and the selection as they were.
C15_FailedLoadKeepsPuzzle ==
    [][LoadFailedToParse =>
          UNCHANGED <<puzzle, pieces, turn, castling, solved, selectedSquare>>]_vars

\* C16: when the continuation fetch fails, answers not-OK or answers with no
\* moves, the puzzle stays solved, no move is applied, no playback is started,
\* and animating is left as it was: the failed fetch never sets it.
C16_FailedFetchLeavesSolved ==
    [][\A i \in DOMAIN tasks : ContinuationLoaded(i, FALSE) =>
          /\ UNCHANGED <<puzzle, solved, pieces, turn, castling, lastMove, animating>>
          /\ ~StaleTask(i) => solved'
          /\ ~MoveApplied
          /\ tasks' = RemoveAt(tasks, i)]_vars

\* a puzzle was solved, its continuation fetch failed, and nothing is pending
C16_Witness ==
    /\ solved
    /\ ~animating
    /\ hist.nSolved = 1
    /\ hist.applied.src = "attempt"
    /\ hist.epoch = 1
    /\ loads = 1
    /\ tasks = <<>>

\* getPseudoLegalMoves has just been called on probe.square
Generated == probe.fn = "getPseudoLegalMoves"

\* C17: the moves generated for a square that holds no piece are none.
C17_EmptySquareNoMoves ==
    (Generated /\ pieces[probe.square] = Undefined) => probe.moves = <<>>

\* the generator was called on an empty square next to a king
C17_Witness ==
    /\ Generated
    /\ probe.square = Sq("d", "1")
    /\ pieces[Sq("d", "1")] = Undefined
    /\ pieces[Sq("e", "1")] = "K"
    /\ probe.moves = <<>>

\* the castling destinations the claim grants a king on (e, rank) holding the
\* rights kingside and queenside
CastlingGranted(rank, kingside, queenside) ==
    /\ Sq("g", rank) \in Range(probe.moves)
          <=> /\ includes(castling, kingside)
              /\ pieces[Sq("f", rank)] = Undefined
              /\ pieces[Sq("g", rank)] = Undefined
    /\ Sq("c", rank) \in Range(probe.moves)
          <=> /\ includes(castling, queenside)
              /\ pieces[Sq("b", rank)] = Undefined
              /\ pieces[Sq("c", rank)] = Undefined
              /\ pieces[Sq("d", rank)] = Undefined

\* C18: for a king on its home square the generated moves include the
\* kingside castling destination exactly when the kingside right is held and
\* the f and g squares of the rank are empty, and the queenside destination
\* exactly when the queenside right is held and b, c and d are empty.
C18_CastlingDestinations ==
    /\ (Generated /\ probe.square = Sq("e", "1") /\ pieces[probe.square] = "K")
          => CastlingGranted("1", "K", "Q")
    /\ (Generated /\ probe.square = Sq("e", "8") /\ pieces[probe.square] = "k")
          => CastlingGranted("8", "k", "q")

\* r3k2r/8/8/8/8/8/8/R3K2R w KQkq: the moves from e1 include g1 and c1
C18_Witness ==
    /\ Generated
    /\ probe.square = Sq("e", "1")
    /\ probe.ply = 0
    /\ pieces = parseFen((CHOOSE p \in Puzzles : p.id = 1).fen).pieces
    /\ castling = <<"K", "Q", "k", "q">>
    /\ Sq("g", "1") \in Range(probe.moves)
    /\ Sq("c", "1") \in Range(probe.moves)

\* C19: after a generated move from s to d is applied (with the rook's
\* relocation when it is a castle), s holds no piece of the mover's colour,
\* and generating from d afterwards leaves it so.
C19_OriginVacated ==
    probe.ply >= 1 =>
        \/ pieces[probe.from] = Undefined
        \/ isWhitePiece(pieces[probe.from]) # probe.white

\* the white king castled kingside from a generated move and the moves from
\* g1 were generated afterwards
C19_Witness ==
    /\ Generated
    /\ probe.ply = 1
    /\ probe.from = Sq("e", "1")
    /\ probe.square = Sq("g", "1")
    /\ pieces[Sq("g", "1")] = "K"
    /\ pieces[Sq("f", "1")] = "R"
    /\ pieces[Sq("e", "1")] = Undefined

\* the side-to-move and castling tokens of a position text
TurnToken(fen) == split(fen, " ")[2]
CastlingToken(fen) == split(fen, " ")[3]

\* the right a castling destination stands for
RightOf(to) ==
    CASE to = Sq("g", "1") -> "K"
      [] to = Sq("c", "1") -> "Q"
      [] to = Sq("g", "8") -> "k"
      [] to = Sq("c", "8") -> "q"
      [] OTHER -> "none"

\* the generated destinations two files away from the king's square
TwoFileDestinations ==
    {to \in Range(probe.moves) :
        Abs(indexOf(FILES, to[1]) - indexOf(FILES, probe.square[1])) = 2}

\* C20: parsing never fails because of the castling token: a placement of 8
\* rows parses whatever the token is, the token w yields white to move, and
\* a castling destination is generated for a king only when the token holds
\* the letter of that right, so no other character grants one.
C20_CastlingTokenTolerated ==
    (probe.fn # "input" /\ Len(PlacementRows(probe.fen)) >= 8) =>
        /\ ~probe.threw
        /\ TurnToken(probe.fen) = <<"w">> => turn = "white"
        /\ (Generated /\ pieces[probe.square] \in {"K", "k"}) =>
               \A to \in TwoFileDestinations : includes(CastlingToken(probe.fen), RightOf(to))

\* 8/8/8/8/8/8/4K3/4R3 w KQ - parsed, white to move, and the moves of the
\* king on e2 generated
C20_Witness ==
    /\ Generated
    /\ probe.fen = FenText(<<"8">>, 5, <<"4","K","3">>, <<"4","R","3">>, <<"w">>, <<"K","Q">>)
    /\ ~probe.threw
    /\ probe.square = Sq("e", "2")
    /\ pieces[Sq("e", "2")] = "K"
    /\ pieces[Sq("e", "1")] = "R"
    /\ turn = "white"
    /\ castling = <<"K", "Q">>
    /\ TwoFileDestinations = {}

\* the piece a promotion to the letter promoChar puts down for the side t
PromotedPiece(promoChar, t) ==
    IF t = "white" THEN toUpperCase(promoChar) ELSE toLowerCase(promoChar)

\* what the claim asks of the board after the Correct move from -> to with
\* the best-move code bestMove was applied
CorrectMoveOnBoard(from, to, bestMove) ==
    IF Len(bestMove) = 5
    THEN pieces'[to] = PromotedPiece(bestMove[5], turn)
    ELSE /\ pieces[from] # Undefined
         /\ pieces'[to] = pieces[from]
         /\ pieces'[from] = Undefined

\* C21: when the move of a Correct attempt is applied, a five-character best
\* move leaves on the destination the piece named by its fifth character in
\* the colour of the side to move before the step; a four-character best
\* move leaves the piece of the origin on the destination and the origin
\* empty, whatever stood on the destination before.
C21_CorrectMoveApplied ==
    [][/\ \A i \in DOMAIN tasks : AttemptAnimDone(i) =>
             CorrectMoveOnBoard(tasks[i].from, tasks[i].to, tasks[i].bestMove)
       /\ (AttemptAccepted /\ MoveApplied) =>
             CorrectMoveOnBoard(hist'.from, hist'.to, strToLowerCase(puzzle.best_move))]_vars

\* C22: a continuation move that carries a promotion letter leaves on its
\* destination a piece of the colour of the piece that made the move.
C22_ContinuationPromotionColour ==
    [][\A i \in DOMAIN tasks :
          (/\ PlaybackStep(i)
           /\ MoveApplied
           /\ Len(Continuation(tasks[i].pid)[tasks[i].done + 1]) = 5
           /\ pieces[hist'.applied.from] # Undefined)
          => isWhitePiece(pieces'[hist'.applied.to]) = isWhitePiece(pieces[hist'.applied.from])]_vars

\* C23: under fair firing of timers every playback ends with all its moves
\* applied and animating false, and every animation lock that is taken is
\* released again.
C23_LocksReleased ==
    /\ PlaybackRunning ~> (~PlaybackRunning /\ ~animating)
    /\ animating ~> ~animating

\* a playback has ended: its promotion move is on the board, nothing is
\* pending and the lock is free
C23_Witness ==
    /\ puzzle.id = 5
    /\ hist.applied.src = "continuation"
    /\ hist.applied.to = Sq("a", "8")
    /\ pieces[Sq("a", "7")] = Undefined
    /\ tasks = <<>>
    /\ ~animating

\* pointer input is accepted
InputEnabled == ~animating /\ ~solved

\* the square a release without drag selects: the pressed piece's square, or
\* the square under the pointer when no press was taken
ClickTarget(dropSquare) == IF dragging # Null THEN dragging ELSE dropSquare

\* a step that is the release of a click on a board square
ClickRelease(dropSquare) ==
    ReleaseOn(dropSquare) /\ ~hasDragged /\ ClickTarget(dropSquare) # Null

\* the step verified no attempt
NoAttempt == hist' = hist /\ totalAttempts' = totalAttempts /\ tasks' = tasks

\* the step verified exactly one attempt, from -> to
OneAttempt(from, to) ==
    /\ hist'.n = hist.n + 1
    /\ hist'.from = from
    /\ hist'.to = to
    /\ totalAttempts' = totalAttempts + 1

\* the square holds a piece of the side to move
WhiteLetters == {"K", "Q", "R", "B", "N", "P"}
BlackLetters == {"k", "q", "r", "b", "n", "p"}
SideToMoveHolds(square) ==
    pieces[square] \in (IF turn = "white" THEN WhiteLetters ELSE BlackLetters)

\* C24: with a square s selected and input enabled, a click on s deselects
\* with no attempt, a click on another piece of the side to move selects that
\* square with no attempt, and a click on any other square makes exactly one
\* attempt (s, target) and leaves nothing selected.
C24_SelectedClick ==
    [][\A dropSquare \in InputSquares \cup {Null} :
          (ClickRelease(dropSquare) /\ InputEnabled /\ selectedSquare # Null) =>
             LET s == selectedSquare
                 target == ClickTarget(dropSquare)
             IN  IF target = s
                 THEN selectedSquare' = Null /\ NoAttempt
                 ELSE IF SideToMoveHolds(target)
                 THEN selectedSquare' = target /\ NoAttempt
                 ELSE selectedSquare' = Null /\ OneAttempt(s, target)]_vars

\* with e7 selected the rook's square d8 was clicked: one attempt (e7, d8)
C24_Witness ==
    /\ probe.fn = "onMouseUp"
    /\ ~probe.hasDragged
    /\ ~probe.animating
    /\ ~probe.solved
    /\ probe.selected = Sq("e", "7")
    /\ probe.dragging = Null
    /\ probe.square = Sq("d", "8")
    /\ hist.n = 1
    /\ hist.from = Sq("e", "7")
    /\ hist.to = Sq("d", "8")
    /\ selectedSquare = Null

\* C25: with nothing selected and input enabled, a click (press, then release
\* without drag) on a square holding a piece of the side to move selects that
\* square; a click on an empty square or on an opposing piece leaves nothing
\* selected; neither the press nor the release makes an attempt.
C25_IdleClick ==
    [][/\ \A square \in InputSquares :
             (PressOn(square) /\ InputEnabled /\ selectedSquare = Null) =>
                /\ SideToMoveHolds(square)
                /\ selectedSquare' = Null
                /\ NoAttempt
       /\ \A dropSquare \in InputSquares \cup {Null} :
             (ClickRelease(dropSquare) /\ InputEnabled /\ selectedSquare = Null) =>
                /\ selectedSquare' = IF SideToMoveHolds(ClickTarget(dropSquare))
                                     THEN ClickTarget(dropSquare) ELSE Null
                /\ dragging' = Null
                /\ NoAttempt]_vars

\* from Idle the pawn e7 of the side to move was pressed and released
\* without drag: it is selected
C25_Witness ==
    /\ probe.fn = "onMouseUp"
    /\ ~probe.hasDragged
    /\ ~probe.animating
    /\ ~probe.solved
    /\ probe.selected = Null
    /\ probe.dragging = Sq("e", "7")
    /\ selectedSquare = Sq("e", "7")
    /\ dragging = Null
    /\ hist.n = 0

\* a step that is the release of a drag started on a piece
DragRelease(dropSquare) == ReleaseOn(dropSquare) /\ hasDragged /\ dragging # Null

\* C26: the release of a drag from origin over another board square hands
\* exactly one attempt (origin, releaseSquare) to attemptMove (verified unless
\* the animation lock is set, which drops it); a release over the origin or
\* off the board makes no attempt; either way dragging = null, hasDragged =
\* false and nothing is selected afterwards.
C26_DragRelease ==
    [][\A dropSquare \in InputSquares \cup {Null} :
          DragRelease(dropSquare) =>
             LET origin == dragging
             IN  /\ dragging' = Null
                 /\ hasDragged' = FALSE
                 /\ selectedSquare' = Null
                 /\ IF dropSquare # Null /\ dropSquare # origin
                    THEN IF animating
                         THEN /\ hist'.stale
                              /\ hist'.n = hist.n
                              /\ totalAttempts' = totalAttempts
                         ELSE OneAttempt(origin, dropSquare)
                    ELSE NoAttempt]_vars

\* the pawn was dragged from e7 and released on e8: one attempt (e7, e8)
C26_Witness ==
    /\ probe.fn = "onMouseUp"
    /\ probe.hasDragged
    /\ ~probe.animating
    /\ probe.dragging = Sq("e", "7")
    /\ probe.square = Sq("e", "8")
    /\ hist.n = 1
    /\ hist.from = Sq("e", "7")
    /\ hist.to = Sq("e", "8")
    /\ dragging = Null
    /\ ~hasDragged
    /\ selectedSquare = Null

\* a step that is a pointer move at offset (dx, dy) of a press that has not
\* yet become a drag
PendingMove(dx, dy) == MoveBy(dx, dy) /\ ~hasDragged

\* squared distance from the press point, and the squared threshold
Dist2(dx, dy) == dx * dx + dy * dy
Threshold2 == DRAG_THRESHOLD * DRAG_THRESHOLD

\* C27: after a press on an own piece, a move at a distance below the
\* threshold keeps the gesture a click, and a move at a distance at or above
\* the threshold, the threshold itself included, sets hasDragged.
C27_DragAtOrAboveThreshold ==
    [][\A dx \in Deltas, dy \in Deltas :
          PendingMove(dx, dy) => (hasDragged' = (Dist2(dx, dy) >= Threshold2))]_vars

\* C27 as amended: a move at a distance up to and including the threshold
\* keeps the gesture a click (hasDragged stays false, the selection is
\* untouched, and the release is handled by selectSquare on the pressed
\* square); a move at a distance strictly above the threshold sets hasDragged
\* and selects the pressed square.
C27_DragAboveThreshold ==
    [][/\ \A dx \in Deltas, dy \in Deltas :
             PendingMove(dx, dy) =>
                IF Dist2(dx, dy) > Threshold2
                THEN hasDragged' = TRUE /\ selectedSquare' = dragging
                ELSE hasDragged' = FALSE /\ selectedSquare' = selectedSquare
       /\ \A dropSquare \in InputSquares \cup {Null} :
             (ReleaseOn(dropSquare) /\ ~hasDragged /\ dragging # Null) =>
                selectSquare(dragging)]_vars

\* the pointer moved exactly DRAG_THRESHOLD pixels from the press point of a
\* pressed piece and the gesture is still a click
C27_Witness ==
    /\ probe.fn = "onMouseMove"
    /\ probe.dragging # Null
    /\ ~probe.hasDragged
    /\ probe.dx = DRAG_THRESHOLD
    /\ probe.dy = 0
    /\ ~hasDragged
    /\ dragging = probe.dragging

\* zero-based file and rank of a square
FileIndex == [c \in Range(FILES) |-> CHOOSE i \in 0..7 : FILES[i + 1] = c]
RankIndex == [c \in Range(RANKS) |-> CHOOSE i \in 0..7 : RANKS[i + 1] = c]
FileIdx(sq) == FileIndex[sq[1]]
RankIdx(sq) == RankIndex[sq[2]]

\* k steps from sq in direction dir stay on the board, and the square there
Inside(sq, dir, k) ==
    /\ FileIdx(sq) + k * dir[1] \in 0..7
    /\ RankIdx(sq) + k * dir[2] \in 0..7
StepFrom(sq, dir, k) ==
    <<FILES[FileIdx(sq) + k * dir[1] + 1], RANKS[RankIdx(sq) + k * dir[2] + 1]>>

\* two pieces of opposite colours, two pieces of the same colour
Opposing(p, q) ==
    \/ p \in WhiteLetters /\ q \in BlackLetters
    \/ p \in BlackLetters /\ q \in WhiteLetters
SameColour(p, q) ==
    \/ p \in WhiteLetters /\ q \in WhiteLetters
    \/ p \in BlackLetters /\ q \in BlackLetters

Diagonals == {<<df, dr>> : df \in {-1, 1}, dr \in {-1, 1}}
Straights == {<<-1, 0>>, <<1, 0>>, <<0, -1>>, <<0, 1>>}
DirectionsOf(piece) ==
    CASE piece \in {"B", "b"} -> Diagonals
      [] piece \in {"R", "r"} -> Straights
      [] piece \in {"Q", "q"} -> Diagonals \cup Straights
      [] OTHER -> {}

\* the squares a ray walk from sq reaches: every square only empty squares
\* separate from sq, if it is empty or holds a piece opposing the walker
RayWalk(sq) ==
    {StepFrom(sq, x[1], x[2]) :
        x \in {y \in DirectionsOf(pieces[sq]) \X (1..7) :
                  /\ Inside(sq, y[1], y[2])
                  /\ \A j \in 1..(y[2] - 1) : pieces[StepFrom(sq, y[1], j)] = Undefined
                  /\ \/ pieces[StepFrom(sq, y[1], y[2])] = Undefined
                     \/ Opposing(pieces[sq], pieces[StepFrom(sq, y[1], y[2])])}}

Sliders == {"B", "R", "Q", "b", "r", "q"}

\* the moves are pairwise distinct
NoRepeat(moves) == Cardinality(Range(moves)) = Len(moves)

\* C28: the moves generated for a bishop, rook or queen are exactly the
\* squares of the ray walk in the piece's directions: the empty squares up
\* to the board edge or the first occupied square, that square if it holds
\* an opposing piece, and nothing beyond it.
C28_SliderRayWalk ==
    (Generated /\ pieces[probe.square] \in Sliders) =>
        /\ Range(probe.moves) = RayWalk(probe.square)
        /\ NoRepeat(probe.moves)

\* a white bishop on e2 with a black knight on d3 and a white knight on f1:
\* d3 is generated, c4 behind it and f1 are not, f3 and d1 are
C28_Witness ==
    /\ Generated
    /\ probe.square = Sq("e", "2")
    /\ pieces[Sq("e", "2")] = "B"
    /\ pieces[Sq("d", "3")] = "n"
    /\ pieces[Sq("f", "1")] = "N"
    /\ Sq("d", "3") \in Range(probe.moves)
    /\ Sq("c", "4") \notin Range(probe.moves)
    /\ Sq("f", "1") \notin Range(probe.moves)
    /\ Sq("h", "5") \in Range(probe.moves)
    /\ Sq("d", "1") \in Range(probe.moves)

\* the squares the pawn on sq may go to: one step forward if empty, two from
\* the starting rank if both are empty, a forward diagonal if it holds an
\* opposing piece
PawnTargets(sq) ==
    LET p == pieces[sq]
        dir == IF p = "P" THEN 1 ELSE -1
        startRank == IF p = "P" THEN 1 ELSE 6
        fwd == <<0, dir>>
        one == IF Inside(sq, fwd, 1) /\ pieces[StepFrom(sq, fwd, 1)] = Undefined
               THEN {StepFrom(sq, fwd, 1)} ELSE {}
        two == IF /\ RankIdx(sq) = startRank
                  /\ pieces[StepFrom(sq, fwd, 1)] = Undefined
                  /\ pieces[StepFrom(sq, fwd, 2)] = Undefined
               THEN {StepFrom(sq, fwd, 2)} ELSE {}
        diag == {StepFrom(sq, <<df, dir>>, 1) :
                    df \in {d \in {-1, 1} :
                              /\ Inside(sq, <<d, dir>>, 1)
                              /\ Opposing(p, pieces[StepFrom(sq, <<d, dir>>, 1)])}}
    IN  one \cup two \cup diag

\* C29: the moves generated for a pawn are exactly the square one step
\* forward if empty, the square two steps forward from the starting rank if
\* both squares are empty, and the forward diagonals that hold an opposing
\* piece; an empty diagonal square is never generated, and every move is a
\* square of the board.
C29_PawnMoves ==
    (Generated /\ pieces[probe.square] \in {"P", "p"}) =>
        /\ Range(probe.moves) = PawnTargets(probe.square)
        /\ Range(probe.moves) \subseteq AllSquares
        /\ \A to \in Range(probe.moves) :
              FileIdx(to) # FileIdx(probe.square) => pieces[to] # Undefined
        /\ NoRepeat(probe.moves)

\* a white pawn on e2 with a black knight on d3: e3, e4 and d3 are
\* generated, the empty diagonal f3 is not
C29_Witness ==
    /\ Generated
    /\ probe.square = Sq("e", "2")
    /\ pieces[Sq("e", "2")] = "P"
    /\ pieces[Sq("d", "3")] = "n"
    /\ pieces[Sq("f", "3")] = Undefined
    /\ Range(probe.moves) = {Sq("e", "3"), Sq("e", "4"), Sq("d", "3")}

\* the eight jumps of a knight and the eight steps of a king
KnightJumps == {x \in (-2..2) \X (-2..2) : Abs(x[1]) * Abs(x[2]) = 2}
KingSteps == {x \in (-1..1) \X (-1..1) : x # <<0, 0>>}

\* the squares at the given offsets from sq that are on the board and do not
\* hold a piece of the colour of the piece on sq
OffsetTargets(sq, offsets) ==
    {StepFrom(sq, x, 1) :
        x \in {y \in offsets : /\ Inside(sq, y, 1)
                                /\ ~SameColour(pieces[sq], pieces[StepFrom(sq, y, 1)])}}

\* the generated moves that are not castling moves (two files from the origin)
NonCastling == Range(probe.moves) \ TwoFileDestinations

\* C30: the moves generated for a knight, and the non-castling moves
\* generated for a king, are exactly the squares at the piece's eight
\* offsets that are on the board and not occupied by a piece of its colour.
C30_KnightKingOffsets ==
    /\ (Generated /\ pieces[probe.square] \in {"N", "n"}) =>
          /\ Range(probe.moves) = OffsetTargets(probe.square, KnightJumps)
          /\ NoRepeat(probe.moves)
    /\ (Generated /\ pieces[probe.square] \in {"K", "k"}) =>
          /\ NonCastling = OffsetTargets(probe.square, KingSteps)
          /\ NoRepeat(probe.moves)

\* a white king on e1 between a white knight on d1 and a black knight on
\* f1: f1 and the three squares of rank 2 are generated, d1 is not
C30_Witness ==
    /\ Generated
    /\ probe.square = Sq("e", "1")
    /\ pieces[Sq("e", "1")] = "K"
    /\ pieces[Sq("d", "1")] = "N"
    /\ pieces[Sq("f", "1")] = "n"
    /\ Range(probe.moves) = {Sq("f", "1"), Sq("d", "2"), Sq("e", "2"), Sq("f", "2")}

\* a step in which loadPuzzle received a puzzle and parsed its position
LoadSucceeded == hist'.epoch = hist.epoch + 1

\* C31: a successful puzzle load leaves the session reset and the board that
\* of the new puzzle: nothing selected, no drag, solved, animating and
\* lastMove cleared, and pieces, turn and castling the parse of the puzzle's
\* position string.
C31_LoadResetsSession ==
    [][LoadSucceeded =>
          /\ selectedSquare' = Null
          /\ dragging' = Null
          /\ hasDragged' = FALSE
          /\ solved' = FALSE
          /\ animating' = FALSE
          /\ lastMove' = Null
          /\ LET parsed == parseFen(puzzle'.fen)
             IN  /\ pieces' = parsed.pieces
                 /\ turn' = parsed.turn
                 /\ castling' = parsed.castling]_vars

\* a second puzzle was loaded after a move had been applied and the first
\* puzzle solved: the session is reset and the board is the new puzzle's
C31_Witness ==
    /\ hist.epoch = 2
    /\ hist.applied.n >= 1
    /\ hist.nSolved >= 1
    /\ selectedSquare = Null
    /\ dragging = Null
    /\ ~solved
    /\ ~animating
    /\ lastMove = Null
    /\ pieces = parseFen(puzzle.fen).pieces
    /\ PendingKinds({"loadFetch"}) = {}

\* the characters of a well-formed placement
DigitChars == {"1", "2", "3", "4", "5", "6", "7", "8"}
PieceLetters == WhiteLetters \cup BlackLetters

\* 8 rows of digits and piece letters, each describing 8 files
WellFormed(fen) ==
    /\ Len(PlacementRows(fen)) = 8
    /\ \A k \in 1..8 :
          /\ RowWidth(PlacementRows(fen)[k]) = 8
          /\ Range(PlacementRows(fen)[k]) \subseteq DigitChars \cup PieceLetters

\* what the placement puts on sq: the letter of the row of sq's rank (row 1
\* is rank 8) that, counting files from a with digits as empty runs, falls
\* on sq's file
PlacedAt(fen, sq) ==
    LET row == PlacementRows(fen)[8 - RankIdx(sq)]
        hits == {j \in DOMAIN row : /\ row[j] \in PieceLetters
                                    /\ RowWidth(SubSeq(row, 1, j - 1)) = FileIdx(sq)}
    IN  IF hits = {} THEN Undefined ELSE row[CHOOSE j \in hits : TRUE]

\* C32: parsing a well-formed position puts each piece letter on the square
\* of its row (first row rank 8, last row rank 1) and of its file counted
\* from a with digits skipping files, leaves every other square empty, and
\* its uppercase letters are the white pieces, its lowercase the black.
C32_PlacementParsed ==
    (probe.fn # "input" /\ WellFormed(probe.fen)) =>
        /\ ~probe.threw
        /\ \A sq \in AllSquares :
              /\ pieces[sq] = PlacedAt(probe.fen, sq)
              /\ pieces[sq] # Undefined =>
                    /\ isWhitePiece(pieces[sq]) <=> pieces[sq] \in WhiteLetters
                    /\ isOwnPiece(pieces, "black", sq) <=> pieces[sq] \in BlackLetters

\* rnbqkbnr/8/8/8/8/8/p1P2nB1/R3K2R b KQkq - parsed
C32_Witness ==
    /\ probe.fn = "parseFen"
    /\ probe.fen = FenText(<<"r","n","b","q","k","b","n","r">>, 5,
                           <<"p","1","P","2","n","B","1">>, <<"R","3","K","2","R">>,
                           <<"b">>, <<"K","Q","k","q">>)
    /\ pieces[Sq("a", "8")] = "r"
    /\ pieces[Sq("d", "8")] = "q"
    /\ pieces[Sq("a", "2")] = "p"
    /\ pieces[Sq("c", "2")] = "P"
    /\ pieces[Sq("f", "2")] = "n"
    /\ pieces[Sq("g", "2")] = "B"
    /\ pieces[Sq("b", "2")] = Undefined
    /\ pieces[Sq("h", "2")] = Undefined
    /\ pieces[Sq("h", "1")] = "R"
    /\ pieces[Sq("e", "5")] = Undefined

\* C33: the number of puzzles solved never exceeds the number of attempts
\* made, also when the counters are reset or a puzzle is loaded between a
\* Correct attempt and its delayed solved step.
C33_SolvedAtMostAttempts == totalSolved <= totalAttempts

\* the continuation fetches pending in a pool of callbacks
ContinuationFetches(pool) == {j \in DOMAIN pool : pool[j].kind = "contFetch"}

\* C34: the delayed solved step of a Correct attempt made on a puzzle that
\* has since been replaced by a load neither marks the loaded puzzle solved
\* nor starts a continuation fetch for it.
C34_SolvedByOwnAttempt ==
    [][\A i \in DOMAIN tasks :
          (SolvedTimer(i) /\ StaleTask(i)) =>
             /\ solved' = solved
             /\ Cardinality(ContinuationFetches(tasks')) <=
                   Cardinality(ContinuationFetches(tasks))]_vars

\* the playbacks in progress: each started playback has exactly one pending
\* callback (its sleep or the animation of its current move) until its last
\* move is applied
Playbacks == PendingKinds({"contSleep", "contAnim", "contCastle"})

\* C35: at most one continuation playback is in progress at any time.
C35_OnePlayback == Cardinality(Playbacks) <= 1

\* C36: every attempt the pointer handlers hand over, by click-click or by
\* drag and drop, has from different from to, and from holds a piece of the
\* side to move at that moment.
C36_AttemptFromOwnPiece ==
    [][AttemptAccepted =>
          /\ hist'.from # hist'.to
          /\ SideToMoveHolds(hist'.from)]_vars

\* C37: in the coordinate trainer the expiry of the timer on an unanswered
\* question counts as an incorrect attempt in every mode and for every
\* target square: attempts grows by one and correct stays.
C37_TimeoutIsIncorrect ==
    [][(TimerExpired /\ ~coord.waiting) =>
          /\ coord'.attempts = coord.attempts + 1
          /\ coord'.correct = coord.correct]_vars

\* C38: in the coordinate trainer a delayed next-question timer replaces
\* only the question whose answer scheduled it, while the trainer still waits
\* after that answer; it never replaces a question that is shown unanswered
\* (after Space skipped the wait, a mode change or a reset).
C38_TimerReplacesOwnQuestion ==
    [][\A i \in DOMAIN coord.pending :
          NextQuestionTimer(i) =>
              coord.waiting /\ coord.pending[i] = coord.question]_vars

\* the light squares of a chessboard: a1 is dark, h1 is light
StandardLight(sq) == (FileIdx(sq) + RankIdx(sq)) % 2 = 1

\* C39: isLightSquare is true exactly on the light squares of a standard
\* chessboard, so the colour quiz counts the answer light as correct exactly
\* when the square shown is light, and the answer dark exactly when it is dark.
C39_ColourJudgedByBoard ==
    [][\A color \in {Light, Dark} :
          handleColorAnswer(color) =>
              /\ isLightSquare(coord.currentSquare[1], coord.currentSquare[2])
                     <=> StandardLight(coord.currentSquare)
              /\ (coord'.correct = coord.correct + 1)
                     <=> ((color = Light) <=> StandardLight(coord.currentSquare))]_vars
====
